---- MODULE Spec2Model ----
(***************************************************************************)
(* Cron-Price-Fetcher: the multi-provider price resolution pipeline        *)
(* (src/core/fetchPrice.ts), its three vendor adapters (src/vendors), the  *)
(* normalizer and the result cache, as one state machine.                  *)
(*                                                                         *)
(* Encoding of JavaScript values                                           *)
(*   number | null        a record [k, v]: Null, Num(n), NaN               *)
(*   raw JSON price       a record [k, v]: k in null / num / str / bad     *)
(*                        (str: a numeric string, bad: a non-numeric one)  *)
(*   string | null        a string, NullStr standing for null / undefined  *)
(*   Record<string, ..>   a function whose DOMAIN is the set of own keys   *)
(*   an unfilled slot     Undefined                                        *)
(* Prices are integers (a fixed small unit of USD).                        *)
(***************************************************************************)
EXTENDS Integers, Sequences, FiniteSets, TLC

(***************************************************************************)
(* Bounds of the model.                                                    *)
(***************************************************************************)
MaxTokens == 2
MaxPairs == 2
MaxRuns == 2
MaxKeys == 3

(***************************************************************************)
(* Values.                                                                 *)
(***************************************************************************)
Null == [k |-> "null", v |-> 0]
NaN == [k |-> "nan", v |-> 0]
Num(n) == [k |-> "num", v |-> n]

RNull == [k |-> "null", v |-> 0]
RNum(n) == [k |-> "num", v |-> n]
RStr(n) == [k |-> "str", v |-> n]
RBad == [k |-> "bad", v |-> 0]

NullStr == "<null>"
NullSource == "<null>"

\* Number(x) of a raw JSON value.
ToNumber(raw) ==
  CASE raw.k = "num" -> Num(raw.v)
    [] raw.k = "str" -> Num(raw.v)
    [] raw.k = "bad" -> NaN
    [] OTHER -> Num(0)

\* JavaScript truthiness of a raw JSON value (strings of the pools are non-empty).
Truthy(raw) ==
  CASE raw.k = "null" -> FALSE
    [] raw.k = "num" -> raw.v # 0
    [] OTHER -> TRUE

\* Number.isFinite of a number.
IsFinite(p) == p.k = "num"

\* x != null
NotNullish(p) == p.k # "null"

\* String.prototype.toLowerCase on the strings of the pools.
toLowerCase(s) ==
  CASE s = "0xAA" -> "0xaa"
    [] s = " 0xBB " -> " 0xbb "
    [] s = "0xBB" -> "0xbb"
    [] s = "Pepe" -> "pepe"
    [] s = "Pepe-Coin" -> "pepe-coin"
    [] s = "ETH" -> "eth"
    [] s = " Bsc " -> " bsc "
    [] s = "Bsc" -> "bsc"
    [] s = "Ethereum" -> "ethereum"
    [] OTHER -> s

\* String.prototype.trim on the strings of the pools.
Trim(s) ==
  CASE s = " 0xBB " -> "0xBB"
    [] s = " 0xbb " -> "0xbb"
    [] s = " " -> ""
    [] s = " Bsc " -> "Bsc"
    [] s = " bsc " -> "bsc"
    [] OTHER -> s

EmptyMap == [x \in {} |-> Null]

\* key in map && map[key] != null
Known(map, key) == key \in DOMAIN map /\ NotNullish(map[key])

\* map[key], undefined read as null
Lookup(map, key) == IF key \in DOMAIN map THEN map[key] ELSE Null

Range(s) == {s[j] : j \in 1..Len(s)}

\* No pure function is being called on its own.
NoProbe == [fn |-> "none"]

RECURSIVE SelectIdx(_, _, _)
\* The indices of idx, in order, that satisfy Keep (a for-loop with push).
SelectIdx(idx, Keep(_), n) ==
  IF n > Len(idx) THEN <<>>
  ELSE (IF Keep(idx[n]) THEN <<idx[n]>> ELSE <<>>) \o SelectIdx(idx, Keep, n + 1)

(***************************************************************************)
(* Input pools.                                                            *)
(***************************************************************************)
\* The rows of the token list: an address in two letter cases on one chain
\* (one cache key), the same address on another chain, a second address;
\* rows with both slugs, one slug, and none; two distinct slugs per provider,
\* one of them in two letter cases.
Row(chain, address, geckoId, cmcSlug) ==
  [chain |-> chain, contract_address |-> address,
   coingecko_id |-> geckoId, cmc_slug |-> cmcSlug]

SheetTokenRow ==
  { Row("eth", "0xAA", "pepe", "pepe-coin"),
    Row("eth", "0xaa", NullStr, NullStr),
    Row("bsc", "0xaa", "Pepe", NullStr),
    Row("bsc", "0xbb", NullStr, "pepe-coin"),
    Row("eth", "0xbb", "doge", "doge-coin") }

TokenLists == UNION {[1..n -> SheetTokenRow] : n \in 0..MaxTokens}

(***************************************************************************)
(* Normalizer (core/normalize.ts).                                         *)
(***************************************************************************)
Undefined ==
  [chain |-> "", address |-> "", priceUsd |-> Null, source |-> "<undefined>", at |-> 0]

Filled(r) == r # Undefined

\* Faulty variant: the source argument is passed through whatever the price.
toPriceResultKeepsSource(chain, address, priceUsd, source, t) ==
  [chain |-> chain,
   address |-> toLowerCase(address),
   priceUsd |-> priceUsd,
   source |-> source,
   at |-> t]

toPriceResult(chain, address, priceUsd, source, t) ==
  [chain |-> chain,
   address |-> toLowerCase(address),
   priceUsd |-> priceUsd,
   source |-> IF priceUsd.k = "null" THEN NullSource ELSE source,
   at |-> t]

(***************************************************************************)
(* Result cache (storage.ts).                                              *)
(***************************************************************************)
\* Faulty variant: the key keeps the letter case of the address.
cacheKeyKeepsCase(chain, address) == "price:" \o chain \o ":" \o address

\* Faulty variant: the chain is left out of the key.
cacheKeyNoChain(chain, address) == "price:" \o toLowerCase(address)

\* `price:${chain}:${address.toLowerCase()}`
cacheKey(chain, address) == "price:" \o chain \o ":" \o toLowerCase(address)

(***************************************************************************)
(* Dexscreener adapter: pure parts (vendors/dexscreener.ts).               *)
(***************************************************************************)
NoPair ==
  [base |-> "<none>", quote |-> "<none>", priceUsd |-> RNull,
   liq |-> RNull, vol |-> RNull, marketCap |-> RNull, fdv |-> RNull]

\* Number(x || 0) of an optional number (RNull: absent or null)
NumberOr0(raw) == IF Truthy(raw) THEN raw.v ELSE 0

\* Number(a?.marketCap || a?.fdv || 0)
CapOf(p) == IF Truthy(p.marketCap) THEN p.marketCap.v ELSE NumberOr0(p.fdv)

\* Faulty variant: the 24h volume is not compared.
SortsBeforeNoVolume(a, b) ==
  \/ NumberOr0(a.liq) > NumberOr0(b.liq)
  \/ NumberOr0(a.liq) = NumberOr0(b.liq) /\ CapOf(a) > CapOf(b)

\* The sort comparator is negative for (a, b): a is placed before b.
SortsBefore(a, b) ==
  \/ NumberOr0(a.liq) > NumberOr0(b.liq)
  \/ NumberOr0(a.liq) = NumberOr0(b.liq) /\ NumberOr0(a.vol) > NumberOr0(b.vol)
  \/ /\ NumberOr0(a.liq) = NumberOr0(b.liq)
     /\ NumberOr0(a.vol) = NumberOr0(b.vol)
     /\ CapOf(a) > CapOf(b)

\* candidates.sort(...)[0] of a stable sort: the earliest of the candidates
\* that no other candidate sorts before.
pickBestPair(pairs) ==
  LET candidates == SelectSeq(pairs, LAMBDA p : p.priceUsd.k # "null")
      Top == {j \in 1..Len(candidates) :
                \A m \in 1..Len(candidates) : ~SortsBefore(candidates[m], candidates[j])}
  IN  IF candidates = <<>> THEN NoPair
      ELSE candidates[CHOOSE j \in Top : \A m \in Top : j <= m]

\* The body of fetchDexscreenerPrice for one upstream answer.
DexscreenerPriceOf(pairs) ==
  LET best == pickBestPair(pairs)
  IN  IF best = NoPair \/ ~Truthy(best.priceUsd) THEN Null
      ELSE IF IsFinite(ToNumber(best.priceUsd)) THEN ToNumber(best.priceUsd) ELSE Null

RECURSIVE GroupFor(_, _, _)
\* grouped[key]: the pairs whose base or quote token is key, in response order.
GroupFor(pairs, key, n) ==
  IF n > Len(pairs) THEN <<>>
  ELSE (IF toLowerCase(pairs[n].base) = key THEN <<pairs[n]>> ELSE <<>>)
       \o (IF toLowerCase(pairs[n].quote) = key THEN <<pairs[n]>> ELSE <<>>)
       \o GroupFor(pairs, key, n + 1)

\* out[c.key] as assigned from the grouped batch response.
DexBatchPriceOf(pairs, key) ==
  LET g == GroupFor(pairs, key, 1)
      best == IF g = <<>> THEN NoPair ELSE pickBestPair(g)
  IN  IF best.priceUsd.k # "null" THEN ToNumber(best.priceUsd) ELSE Null

RECURSIVE DedupReqExact(_, _, _)
\* Faulty variant: the Set holds the originals, so keys differing in case stay apart.
DedupReqExact(addrs, n, seen) ==
  IF n > Len(addrs) THEN <<>>
  ELSE LET o == Trim(addrs[n])
           key == toLowerCase(Trim(addrs[n]))
       IN  IF o = "" \/ o \in seen THEN DedupReqExact(addrs, n + 1, seen)
           ELSE <<[original |-> o, key |-> key]>> \o DedupReqExact(addrs, n + 1, seen \cup {o})

RECURSIVE DedupReq(_, _, _)
\* req filtered to non-empty originals, first occurrence of each key kept.
DedupReq(addrs, n, seen) ==
  IF n > Len(addrs) THEN <<>>
  ELSE LET o == Trim(addrs[n])
           key == toLowerCase(Trim(addrs[n]))
       IN  IF o = "" \/ key \in seen THEN DedupReq(addrs, n + 1, seen)
           ELSE <<[original |-> o, key |-> key]>> \o DedupReq(addrs, n + 1, seen \cup {key})

RECURSIVE DedupKeepCase(_, _, _)
\* Faulty variant: the keys are not lower-cased.
DedupKeepCase(xs, n, seen) ==
  IF n > Len(xs) THEN <<>>
  ELSE LET key == IF xs[n] = NullStr THEN "" ELSE xs[n]
       IN  IF key = "" \/ key \in seen THEN DedupKeepCase(xs, n + 1, seen)
           ELSE <<key>> \o DedupKeepCase(xs, n + 1, seen \cup {key})

RECURSIVE LowerNoDedup(_, _)
\* Faulty variant: the keys are lower-cased and filtered, but not put in a Set.
LowerNoDedup(xs, n) ==
  IF n > Len(xs) THEN <<>>
  ELSE LET key == IF xs[n] = NullStr THEN "" ELSE toLowerCase(xs[n])
       IN  IF key = "" THEN LowerNoDedup(xs, n + 1)
           ELSE <<key>> \o LowerNoDedup(xs, n + 1)

\* Faulty variant of DedupLower with its parameters.
DedupLowerNot(xs, n, seen) == LowerNoDedup(xs, n)

RECURSIVE DedupRange(_, _, _)
\* The distinct non-empty lower-cased keys of xs[lo..hi], in order of first
\* occurrence (the insertion order of a Set); computed by halves so that key
\* lists of several hundred keys can be evaluated.
DedupRange(xs, lo, hi) ==
  IF lo > hi THEN <<>>
  ELSE IF lo = hi
       THEN LET key == IF xs[lo] = NullStr THEN "" ELSE toLowerCase(xs[lo])
            IN  IF key = "" THEN <<>> ELSE <<key>>
       ELSE LET mid == (lo + hi) \div 2
                left == DedupRange(xs, lo, mid)
                right == DedupRange(xs, mid + 1, hi)
                leftKeys == Range(left)
            IN  left \o SelectSeq(right, LAMBDA key : key \notin leftKeys)

\* Array.from(new Set(xs.map(lower).filter(Boolean))), from index n on, the
\* keys of seen being in the Set already.
DedupLower(xs, n, seen) ==
  SelectSeq(DedupRange(xs, n, Len(xs)), LAMBDA key : key \notin seen)

Min(a, b) == IF a < b THEN a ELSE b
Max(a, b) == IF a > b THEN a ELSE b

\* arr.slice(i, i + size), i counted from 0
Slice(arr, i, size) == SubSeq(arr, i + 1, Min(i + size, Len(arr)))

(***************************************************************************)
(* Upstream answers.                                                       *)
(***************************************************************************)
DexPairPool ==
  { [base |-> "0xAA", quote |-> "weth", priceUsd |-> RStr(2),
     liq |-> RNum(5), vol |-> RNum(1), marketCap |-> RNull, fdv |-> RNull],
    [base |-> "0xaa", quote |-> "0xbb", priceUsd |-> RNum(1),
     liq |-> RNum(5), vol |-> RNum(2), marketCap |-> RNull, fdv |-> RNum(7)],
    [base |-> "0xbb", quote |-> "weth", priceUsd |-> RNull,
     liq |-> RNum(9), vol |-> RNum(0), marketCap |-> RNull, fdv |-> RNull],
    [base |-> "0xbb", quote |-> "weth", priceUsd |-> RBad,
     liq |-> RNum(3), vol |-> RNum(0), marketCap |-> RNull, fdv |-> RNull] }

DexResponses == UNION {[1..n -> DexPairPool] : n \in 0..MaxPairs}

GeckoUsdPool == {RNull, RNum(0)}

CmcPricePool == {Null, Num(4)}

\* One data-api quote call: it throws on every attempt, or its answer parses
\* to a price or to none (readUsdPriceFromAny).
CmcQuoteOutcomes ==
  {[ok |-> FALSE, price |-> Null]} \cup [ok : {TRUE}, price : CmcPricePool]

\* The HTML page: the request throws, or the page carries an id or none and
\* a __NEXT_DATA__ price or none (parseFromNextData).
CmcHtmlOutcomes ==
  {[ok |-> FALSE, hasId |-> FALSE, next |-> Null]}
    \cup [ok : {TRUE}, hasId : BOOLEAN, next : CmcPricePool]

\* fetchCmcPriceBySlug for given upstream answers: the price returned and
\* whether any upstream call it made threw.
CmcPriceBySlugOf(q1, html, q2) ==
  IF q1.ok /\ NotNullish(q1.price) THEN [price |-> q1.price, threw |-> FALSE]
  ELSE IF ~html.ok THEN [price |-> Null, threw |-> TRUE]
  ELSE IF html.hasId /\ ~q2.ok THEN [price |-> Null, threw |-> TRUE]
  ELSE IF html.hasId /\ NotNullish(q2.price) THEN [price |-> q2.price, threw |-> ~q1.ok]
  ELSE [price |-> html.next, threw |-> ~q1.ok]

(***************************************************************************)
(* Program constants.                                                      *)
(***************************************************************************)
DexMaxBatch == 30
GeckoMaxBatch == 250
CmcMaxConcurrency == 10
DexDefaultBatch == 30
GeckoDefaultBatch == 150
CmcDefaultConcurrency == 4
PipelineDexBatch == 30
PipelineGeckoBatch == 150
PipelineCmcConcurrency == 4

(***************************************************************************)
(* State.                                                                  *)
(***************************************************************************)
VARIABLES
  tokens,        \* the token list handed to fetchAllPrices
  cacheEnabled,  \* CFG.cache.redisUrl && CFG.cache.redisToken
  cache,         \* the remote key-value store: key -> stored PriceResult
  now,           \* the clock that stamps `at`
  run,           \* number of runs started
  pc,            \* position of the pipeline
  ci,            \* loop index of the cache pass (1-based)
  results,       \* results[]
  needFetchIdx,  \* needFetchIdx[]
  hits,          \* the indices whose cacheGet returned a value (record of the cache pass)
  single,        \* what the last fetchPriceForToken call returned
  addresses, dexMap,            \* locals of the Dexscreener block
  ids, idxForId, geckoMap,      \* locals of the CoinGecko block
  slugs, idxForSlug, cmcMap,    \* locals of the CMC block
  caught,        \* the providers whose batch call rejected into .catch
  dex,           \* frame of fetchDexscreenerBatchByTokens
  gecko,         \* frame of fetchCoingeckoBatchByIds
  cmc,           \* frame of fetchCmcBatchBySlugs
  probe          \* a pure function called on its own: its arguments and its result

pipeVars ==
  <<probe, tokens, cacheEnabled, cache, now, run, pc, ci, results, needFetchIdx, hits, single,
    addresses, dexMap, ids, idxForId, geckoMap, slugs, idxForSlug, cmcMap, caught>>

vars == <<pipeVars, dex, gecko, cmc>>

\* opts?.name ?? default: opts is a record that has the field or lacks it.
OptOr(opts, name, default) == IF name \in DOMAIN opts THEN opts[name] ELSE default

\* An opts without batchSize and concurrency.
NoSizeOpts == [retries |-> 2]

\* The content of the upstream answers is explored for key lists of at most
\* MaxKeys keys; a longer list is answered without any priced pair or value.
LongCall(frame) == Len(frame.uniq) > MaxKeys

(***************************************************************************)
(* fetchDexscreenerBatchByTokens.  Besides the locals, a frame records     *)
(* threw: the keys covered by an upstream call that failed on every        *)
(* attempt; (CoinGecko, CMC) got: the prices obtained from upstream; reqs: *)
(* the sub-batches requested so far, in order; singles: the addresses      *)
(* looked up one by one by the fallback; lookups: the slugs whose lookup   *)
(* was started.                                                            *)
(***************************************************************************)
DexIdle ==
  [pc |-> "idle", uniq |-> <<>>, out |-> EmptyMap, i |-> 0, batchSize |-> 1,
   fb |-> 0, threw |-> {}, reqs |-> <<>>, singles |-> <<>>]

\* Faulty variant: the option is not capped at 30.
DexCallUncapped(addrs, opts) ==
  LET uniq == DedupReq(addrs, 1, {})
  IN  [pc |-> IF uniq = <<>> THEN "returned" ELSE "request",
       uniq |-> uniq,
       out |-> [key \in {uniq[j].key : j \in 1..Len(uniq)} |-> Null],
       i |-> 0,
       batchSize |-> Max(1, OptOr(opts, "batchSize", DexDefaultBatch)),
       fb |-> 0,
       threw |-> {},
       reqs |-> <<>>,
       singles |-> <<>>]

\* Lines 113-128: options, de-duplication, prefilled output.
DexCall(addrs, opts) ==
  LET uniq == DedupReq(addrs, 1, {})
  IN  [pc |-> IF uniq = <<>> THEN "returned" ELSE "request",
       uniq |-> uniq,
       out |-> [key \in {uniq[j].key : j \in 1..Len(uniq)} |-> Null],
       i |-> 0,
       batchSize |-> Max(1, Min(DexMaxBatch, OptOr(opts, "batchSize", DexDefaultBatch))),
       fb |-> 0,
       threw |-> {},
       reqs |-> <<>>,
       singles |-> <<>>]

DexChunk(d) == Slice(d.uniq, d.i, d.batchSize)

\* What the upstream may answer to a request of this invocation.
DexUpstream(d) == IF LongCall(d) THEN {<<>>} ELSE DexResponses

\* Faulty variant: the loop over the sub-batches ends after its first iteration.
DexAdvanceOnce(d) ==
  [d EXCEPT !.i = d.i + d.batchSize, !.fb = 0, !.pc = "returned"]

\* The end of one iteration of the sub-batch loop.
DexAdvance(d) ==
  [d EXCEPT !.i = d.i + d.batchSize,
            !.fb = 0,
            !.pc = IF d.i + d.batchSize < Len(d.uniq) THEN "request" ELSE "returned"]

\* The sub-batch request fails on every attempt: pRetry rejects, nothing catches it.
DexRequestFails ==
  /\ dex.pc = "request"
  /\ dex' = [dex EXCEPT !.pc = "rejected",
                        !.threw = {DexChunk(dex)[j].key : j \in 1..Len(DexChunk(dex))},
                        !.reqs = Append(dex.reqs, DexChunk(dex))]
  /\ UNCHANGED <<pipeVars, gecko, cmc>>

\* The sub-batch request is answered: group, pick, assign; decide the fallback.
DexRequestAnswers ==
  /\ dex.pc = "request"
  /\ \E pairs \in DexUpstream(dex) :
       LET chunk == DexChunk(dex)
           keys == {chunk[j].key : j \in 1..Len(chunk)}
           out1 == [key \in DOMAIN dex.out |->
                      IF key \in keys THEN DexBatchPriceOf(pairs, key) ELSE dex.out[key]]
           d1 == [dex EXCEPT !.out = out1, !.reqs = Append(dex.reqs, chunk)]
       IN  dex' = IF pairs = <<>> \/ \A key \in keys : ~NotNullish(out1[key])
                  THEN [d1 EXCEPT !.pc = "fallback", !.fb = 1]
                  ELSE DexAdvance(d1)
  /\ UNCHANGED <<pipeVars, gecko, cmc>>

\* Faulty variant: the fallback gives up after its first lookup.
DexFallbackOnce(d) == DexAdvance(d)

\* The end of one iteration of the fallback loop.
DexFallbackNext(d) ==
  IF d.fb + 1 > Len(DexChunk(d)) THEN DexAdvance(d) ELSE [d EXCEPT !.fb = d.fb + 1]

\* One single-address lookup of the fallback fails: caught, the key stays unknown.
DexFallbackFails ==
  /\ dex.pc = "fallback"
  /\ dex' = DexFallbackNext(
               [dex EXCEPT !.singles = Append(dex.singles, DexChunk(dex)[dex.fb].original)])
  /\ UNCHANGED <<pipeVars, gecko, cmc>>

\* One single-address lookup of the fallback is answered.
DexFallbackAnswers ==
  /\ dex.pc = "fallback"
  /\ \E pairs \in DexUpstream(dex) :
       LET c == DexChunk(dex)[dex.fb]
           price == DexscreenerPriceOf(pairs)
           d1 == [dex EXCEPT !.singles = Append(dex.singles, c.original)]
       IN  dex' = DexFallbackNext(
                    IF NotNullish(price) THEN [d1 EXCEPT !.out[c.key] = price] ELSE d1)
  /\ UNCHANGED <<pipeVars, gecko, cmc>>

(***************************************************************************)
(* fetchCoingeckoBatchByIds.                                               *)
(***************************************************************************)
GeckoIdle ==
  [pc |-> "idle", uniq |-> <<>>, out |-> EmptyMap, i |-> 0, batchSize |-> 1,
   threw |-> {}, got |-> EmptyMap, reqs |-> <<>>]

\* Lines 39-46.
GeckoCall(idList, opts) ==
  LET uniq == DedupLower(idList, 1, {})
  IN  [pc |-> IF uniq = <<>> THEN "returned" ELSE "request",
       uniq |-> uniq,
       out |-> [id \in Range(uniq) |-> Null],
       i |-> 0,
       batchSize |-> Max(1, Min(GeckoMaxBatch, OptOr(opts, "batchSize", GeckoDefaultBatch))),
       threw |-> {},
       got |-> EmptyMap,
       reqs |-> <<>>]

GeckoPart(g) == Slice(g.uniq, g.i, g.batchSize)

\* What data[id].usd may be in an answer to a request of this invocation.
GeckoUpstream(g) == IF LongCall(g) THEN {RNull} ELSE GeckoUsdPool

\* The end of one iteration of the loop over the parts; the part was requested.
GeckoAdvance(g) ==
  [g EXCEPT !.i = g.i + g.batchSize,
            !.reqs = Append(g.reqs, GeckoPart(g)),
            !.pc = IF g.i + g.batchSize < Len(g.uniq) THEN "request" ELSE "returned"]

\* Faulty variant: a failed request clears the map.
GeckoOutWiped(g) == [id \in DOMAIN g.out |-> Null]

\* out after a request that failed on every attempt: res is null, data is {}.
GeckoOutAfterFailure(g) == g.out

\* The sub-batch request fails on every attempt: .catch(() => null).
GeckoRequestFails ==
  /\ gecko.pc = "request"
  /\ gecko' = GeckoAdvance([gecko EXCEPT !.out = GeckoOutAfterFailure(gecko),
                                         !.threw = gecko.threw \cup Range(GeckoPart(gecko))])
  /\ UNCHANGED <<pipeVars, dex, cmc>>

\* out after an answered request: out[id] = v != null ? Number(v) : out[id].
GeckoOutAfterAnswer(g, data) ==
  [id \in DOMAIN g.out |->
     IF id \in DOMAIN data /\ data[id].k # "null" THEN ToNumber(data[id]) ELSE g.out[id]]

\* The sub-batch request is answered with data[id].usd for the ids of the part.
GeckoRequestAnswers ==
  /\ gecko.pc = "request"
  /\ \E data \in [Range(GeckoPart(gecko)) -> GeckoUpstream(gecko)] :
       gecko' = GeckoAdvance(
                  [gecko EXCEPT !.out = GeckoOutAfterAnswer(gecko, data),
                                !.got = [id \in DOMAIN gecko.got \cup
                                           {x \in DOMAIN data : data[x].k # "null"} |->
                                           IF id \in DOMAIN data /\ data[id].k # "null"
                                           THEN ToNumber(data[id]) ELSE gecko.got[id]]])
  /\ UNCHANGED <<pipeVars, dex, cmc>>

(***************************************************************************)
(* fetchCmcBatchBySlugs.                                                   *)
(***************************************************************************)
CmcIdle ==
  [pc |-> "idle", uniq |-> <<>>, out |-> EmptyMap, i |-> 0, concurrency |-> 1,
   inflight |-> {}, settled |-> EmptyMap, threw |-> {}, got |-> EmptyMap,
   lookups |-> <<>>]

\* Faulty variant: the option is not capped at 10.
CmcCallUncapped(slugList, opts) ==
  LET uniq == DedupLower(slugList, 1, {})
  IN  [pc |-> IF uniq = <<>> THEN "returned" ELSE "group",
       uniq |-> uniq,
       out |-> [s \in Range(uniq) |-> Null],
       i |-> 0,
       concurrency |-> Max(1, OptOr(opts, "concurrency", CmcDefaultConcurrency)),
       inflight |-> {},
       settled |-> EmptyMap,
       threw |-> {},
       got |-> EmptyMap,
       lookups |-> <<>>]

\* Lines 197-203.
CmcCall(slugList, opts) ==
  LET uniq == DedupLower(slugList, 1, {})
  IN  [pc |-> IF uniq = <<>> THEN "returned" ELSE "group",
       uniq |-> uniq,
       out |-> [s \in Range(uniq) |-> Null],
       i |-> 0,
       concurrency |-> Max(1, Min(CmcMaxConcurrency,
                                  OptOr(opts, "concurrency", CmcDefaultConcurrency))),
       inflight |-> {},
       settled |-> EmptyMap,
       threw |-> {},
       got |-> EmptyMap,
       lookups |-> <<>>]

CmcPart(c) == Slice(c.uniq, c.i, c.concurrency)

\* part.map(slug => pRetry(() => fetchCmcPriceBySlug(slug))): the lookups start.
CmcGroupStarts ==
  /\ cmc.pc = "group"
  /\ cmc' = [cmc EXCEPT !.pc = "await", !.inflight = Range(CmcPart(cmc)),
                        !.settled = EmptyMap,
                        !.lookups = cmc.lookups \o CmcPart(cmc)]
  /\ UNCHANGED <<pipeVars, dex, gecko>>

\* What the upstream calls of one lookup of this invocation may come to:
\* the outcomes of the quote by slug, of the HTML page and of the quote by id.
CmcUpstream(c) ==
  IF LongCall(c)
  THEN {<<[ok |-> TRUE, price |-> Null],
          [ok |-> TRUE, hasId |-> FALSE, next |-> Null],
          [ok |-> TRUE, price |-> Null]>>}
  ELSE CmcQuoteOutcomes \X CmcHtmlOutcomes \X CmcQuoteOutcomes

\* One lookup in flight settles (fetchCmcPriceBySlug never throws).
CmcLookupSettles ==
  /\ cmc.pc = "await"
  /\ \E slug \in cmc.inflight, up \in CmcUpstream(cmc) :
       LET r == CmcPriceBySlugOf(up[1], up[2], up[3])
       IN  cmc' = [cmc EXCEPT
                     !.inflight = cmc.inflight \ {slug},
                     !.settled = [s \in DOMAIN cmc.settled \cup {slug} |->
                                    IF s = slug THEN r.price ELSE cmc.settled[s]],
                     !.threw = IF r.threw THEN cmc.threw \cup {slug} ELSE cmc.threw,
                     !.got = [s \in DOMAIN cmc.got \cup {slug} |->
                                IF s = slug THEN r.price ELSE cmc.got[s]]]
  /\ UNCHANGED <<pipeVars, dex, gecko>>

\* out after Promise.all resolved: out[part[j]] = results[j].
CmcOutAfterGroup(c) ==
  [s \in DOMAIN c.out |-> IF s \in DOMAIN c.settled THEN c.settled[s] ELSE c.out[s]]

\* Promise.all resolves once every lookup of the group has settled.
CmcGroupSettles ==
  /\ cmc.pc = "await"
  /\ cmc.inflight = {}
  /\ cmc' = [cmc EXCEPT
               !.out = CmcOutAfterGroup(cmc),
               !.settled = EmptyMap,
               !.i = cmc.i + cmc.concurrency,
               !.pc = IF cmc.i + cmc.concurrency < Len(cmc.uniq) THEN "group" ELSE "returned"]
  /\ UNCHANGED <<pipeVars, dex, gecko>>

(***************************************************************************)
(* storage.ts: cacheGet.                                                   *)
(***************************************************************************)
\* A stored string that JSON.parse rejects.
Malformed ==
  [chain |-> "", address |-> "", priceUsd |-> Null, source |-> "<malformed>", at |-> 0]

\* What the GET or SET request to the store can come to: axios throws on a
\* network error or timeout and, by validateStatus, on a 5xx status; it
\* resolves on a 4xx status, whose body carries no result, and on success.
StoreOutcomes == {"network error", "status 5xx", "status 4xx", "success"}
Throws(outcome) == outcome \in {"network error", "status 5xx"}

\* Faulty variant: the try has no catch.
Rethrow(r) == r

\* catch {} of cacheGet and cacheSet: the exception is dropped, the function
\* goes on to return null (cacheGet) or undefined (cacheSet).
Swallow(r) == IF r.raised THEN [raised |-> FALSE, sent |-> r.sent, value |-> Undefined] ELSE r

\* Lines 111-117, the body of the try of cacheGet.
cacheGetTry(key, outcome) ==
  IF Throws(outcome) THEN [raised |-> TRUE, sent |-> TRUE, value |-> Undefined]
  ELSE IF outcome = "status 4xx" \/ key \notin DOMAIN cache
       THEN [raised |-> FALSE, sent |-> TRUE, value |-> Undefined]
  ELSE IF cache[key] = Malformed THEN [raised |-> TRUE, sent |-> TRUE, value |-> Undefined]
  ELSE [raised |-> FALSE, sent |-> TRUE, value |-> cache[key]]

\* cacheGet(key) for one outcome of its request: whether it raised, whether
\* it sent a request, the value it returned (Undefined stands for null).
cacheGetOf(key, outcome) ==
  IF ~cacheEnabled THEN [raised |-> FALSE, sent |-> FALSE, value |-> Undefined]
  ELSE Swallow(cacheGetTry(key, outcome))

\* What cacheGet(key) can come to.
cacheGet(key) == {cacheGetOf(key, outcome) : outcome \in StoreOutcomes}

\* Lines 90-97, the body of the try of cacheSet; value: whether the SET landed.
cacheSetTry(outcome) ==
  IF Throws(outcome) THEN [raised |-> TRUE, sent |-> TRUE, value |-> FALSE]
  ELSE [raised |-> FALSE, sent |-> TRUE, value |-> outcome = "success"]

\* The catch of cacheSet: ignore silently.
SwallowSet(r) == IF r.raised THEN [raised |-> FALSE, sent |-> r.sent, value |-> FALSE] ELSE r

\* cacheSet(key, value) for one outcome of its request.
cacheSetOf(outcome) ==
  IF ~cacheEnabled THEN [raised |-> FALSE, sent |-> FALSE, value |-> FALSE]
  ELSE SwallowSet(cacheSetTry(outcome))

(***************************************************************************)
(* core/fetchPrice.ts: fetchAllPrices.                                     *)
(***************************************************************************)
N == Len(tokens)

\* The indices of needFetchIdx whose slot is not filled.
Pending(res) == {i \in Range(needFetchIdx) : ~Filled(res[i])}

\* Faulty variant: the map is read under the address as given, not lower-cased.
applyMapRawKey(res, map, source, t) ==
  [i \in 1..Len(res) |->
     IF /\ i \in Range(needFetchIdx)
        /\ ~Filled(res[i])
        /\ Known(map, tokens[i].contract_address)
     THEN toPriceResult(tokens[i].chain, tokens[i].contract_address,
                        map[tokens[i].contract_address], source, t)
     ELSE res[i]]

\* Faulty variant: the map is applied per batch, only when it prices every pending index.
applyMapAllOrNothing(res, map, source, t) ==
  [i \in 1..Len(res) |->
     IF /\ i \in Range(needFetchIdx) /\ ~Filled(res[i])
        /\ \A j \in Pending(res) : Known(map, toLowerCase(tokens[j].contract_address))
     THEN toPriceResult(tokens[i].chain, tokens[i].contract_address,
                        map[toLowerCase(tokens[i].contract_address)], source, t)
     ELSE res[i]]

\* Faulty variant: a price of the map is given to the first pending token of
\* its address only.
applyMapOncePerKey(res, map, source, t) ==
  [i \in 1..Len(res) |->
     IF /\ i \in Range(needFetchIdx)
        /\ ~Filled(res[i])
        /\ Known(map, toLowerCase(tokens[i].contract_address))
        /\ \A j \in Range(needFetchIdx) :
             j < i => toLowerCase(tokens[j].contract_address)
                        # toLowerCase(tokens[i].contract_address)
     THEN toPriceResult(tokens[i].chain, tokens[i].contract_address,
                        map[toLowerCase(tokens[i].contract_address)], source, t)
     ELSE res[i]]

\* applyMap(map, source): fill the pending slots whose lower-cased address
\* the map gives a price for.
applyMap(res, map, source, t) ==
  [i \in 1..Len(res) |->
     IF /\ i \in Range(needFetchIdx)
        /\ ~Filled(res[i])
        /\ Known(map, toLowerCase(tokens[i].contract_address))
     THEN toPriceResult(tokens[i].chain, tokens[i].contract_address,
                        map[toLowerCase(tokens[i].contract_address)], source, t)
     ELSE res[i]]

\* tokens[i].coingecko_id?.toLowerCase(), "" when there is none
GeckoIdOf(tok) == IF tok.coingecko_id = NullStr THEN "" ELSE toLowerCase(tok.coingecko_id)

\* tokens[i].cmc_slug?.toLowerCase(), "" when there is none
CmcSlugOf(tok) == IF tok.cmc_slug = NullStr THEN "" ELSE toLowerCase(tok.cmc_slug)

\* Lines 116-124 and 146-154: fill the submitted indices the map prices.
applySlugMap(res, idx, map, KeyOf(_), source, t) ==
  [i \in 1..Len(res) |->
     IF i \in Range(idx) /\ ~Filled(res[i]) /\ NotNullish(Lookup(map, KeyOf(tokens[i])))
     THEN toPriceResult(tokens[i].chain, tokens[i].contract_address,
                        Lookup(map, KeyOf(tokens[i])), source, t)
     ELSE res[i]]

\* Faulty variant: the finalization loop is missing.
fillRemainingNone(res, t) == res

\* Lines 158-164: every slot still empty gets an explicit unknown.
fillRemaining(res, t) ==
  [i \in 1..Len(res) |->
     IF i \in Range(needFetchIdx) /\ ~Filled(res[i])
     THEN toPriceResult(tokens[i].chain, tokens[i].contract_address, Null, NullSource, t)
     ELSE res[i]]

\* Faulty variant: the `if (results[i]) continue` of the id list is missing.
geckoIdxUnfiltered(res) ==
  SelectIdx(needFetchIdx, LAMBDA i : GeckoIdOf(tokens[i]) # "", 1)

\* Lines 99-108: idxForId, the pending indices that have a coingecko_id.
geckoIdx(res) ==
  SelectIdx(needFetchIdx, LAMBDA i : ~Filled(res[i]) /\ GeckoIdOf(tokens[i]) # "", 1)

\* Faulty variant: the pending indices are pushed whether or not they have a slug.
cmcIdxAll(res) ==
  SelectIdx(needFetchIdx, LAMBDA i : ~Filled(res[i]), 1)

\* Lines 130-139: idxForSlug, the pending indices that have a cmc_slug.
cmcIdx(res) ==
  SelectIdx(needFetchIdx, LAMBDA i : ~Filled(res[i]) /\ CmcSlugOf(tokens[i]) # "", 1)

\* Faulty variant: the batch call has no .catch.
NoCatch(frame) == [rejected |-> frame.pc = "rejected", map |-> frame.out]

\* await adapter(...).catch(() => ({})): a rejection becomes the empty map.
CatchBatch(frame) ==
  [rejected |-> FALSE, map |-> IF frame.pc = "rejected" THEN EmptyMap ELSE frame.out]

\* Faulty variant: the pipeline goes on only when the adapter's promise is fulfilled.
FulfilledOnly(frame) == frame.pc = "returned"

\* Faulty variant: the batch call is not awaited.
NotAwaited(frame) == TRUE

\* await: the pipeline goes on when the adapter's promise has settled.
Settled(frame) == frame.pc \in {"returned", "rejected"}

\* Faulty variant: the index is pushed on a hit too.
needFetchAlways(need, c, i) == Append(need, i)

\* Lines 59-63: a miss is pushed to needFetchIdx, a hit is not.
needFetchAfter(need, c, i) == IF Filled(c) THEN need ELSE Append(need, i)

\* A run starts: results = new Array(tokens.length), needFetchIdx = [].
StartRun ==
  /\ pc = "idle"
  /\ run < MaxRuns
  /\ run' = run + 1
  /\ now' = now + 1
  /\ pc' = "cache"
  /\ ci' = 1
  /\ results' = [i \in 1..N |-> Undefined]
  /\ needFetchIdx' = <<>>
  /\ hits' = {}
  /\ single' = Undefined
  /\ addresses' = <<>> /\ dexMap' = EmptyMap
  /\ ids' = <<>> /\ idxForId' = <<>> /\ geckoMap' = EmptyMap
  /\ slugs' = <<>> /\ idxForSlug' = <<>> /\ cmcMap' = EmptyMap
  /\ caught' = {}
  /\ dex' = DexIdle /\ gecko' = GeckoIdle /\ cmc' = CmcIdle
  /\ UNCHANGED <<probe, tokens, cacheEnabled, cache>>

\* Faulty variant: a hit is stamped with the time of the run.
restamped(c, t) == [c EXCEPT !.at = t]

\* Line 60, results[i] = c: the value read goes into the slot as it is.
alreadyNormalized(c, t) == c

\* One iteration of the cache pass (lines 56-64); an exception out of the
\* awaited cacheGet would reject fetchAllPrices.
CacheRead ==
  /\ pc = "cache"
  /\ ci <= N
  /\ \E r \in cacheGet(cacheKey(tokens[ci].chain, tokens[ci].contract_address)) :
       IF r.raised
       THEN /\ pc' = "rejected"
            /\ UNCHANGED <<results, needFetchIdx, hits, ci>>
       ELSE /\ results' = IF Filled(r.value)
                          THEN [results EXCEPT ![ci] = alreadyNormalized(r.value, now)]
                          ELSE results
            /\ needFetchIdx' = needFetchAfter(needFetchIdx, r.value, ci)
            /\ hits' = IF Filled(r.value) THEN hits \cup {ci} ELSE hits
            /\ ci' = ci + 1
            /\ pc' = pc
  /\ UNCHANGED <<probe, tokens, cacheEnabled, cache, now, run, single, addresses, dexMap, ids,
                 idxForId, geckoMap, slugs, idxForSlug, cmcMap, caught, dex, gecko, cmc>>

\* Line 65: every token came from the cache, return.
AllFromCache ==
  /\ pc = "cache"
  /\ ci > N
  /\ needFetchIdx = <<>>
  /\ pc' = "done"
  /\ UNCHANGED <<probe, tokens, cacheEnabled, cache, now, run, ci, results, needFetchIdx, hits,
                 single,
                 addresses, dexMap, ids, idxForId, geckoMap, slugs, idxForSlug, cmcMap,
                 caught, dex, gecko, cmc>>

\* Lines 87-88: the Dexscreener batch is called with the pending addresses.
CallDexscreener ==
  /\ pc = "cache"
  /\ ci > N
  /\ needFetchIdx # <<>>
  /\ addresses' = [j \in 1..Len(needFetchIdx) |-> tokens[needFetchIdx[j]].contract_address]
  /\ dex' = DexCall(addresses', [batchSize |-> PipelineDexBatch])
  /\ pc' = "dex"
  /\ UNCHANGED <<probe, tokens, cacheEnabled, cache, now, run, ci, results, needFetchIdx, hits,
                 single,
                 dexMap, ids, idxForId, geckoMap, slugs, idxForSlug, cmcMap, caught,
                 gecko, cmc>>

\* Lines 93-115: the Dexscreener call settled; apply its map, then build the
\* CoinGecko id list from what is still pending and call the adapter.
DexscreenerSettled ==
  /\ pc = "dex"
  /\ Settled(dex)
  /\ LET s == CatchBatch(dex)
         res1 == applyMap(results, s.map, "dexscreener", now)
         idx == geckoIdx(res1)
         idList == [j \in 1..Len(idx) |-> GeckoIdOf(tokens[idx[j]])]
     IN  IF s.rejected
         THEN /\ pc' = "rejected"
              /\ UNCHANGED <<results, dexMap, ids, idxForId, caught, gecko>>
         ELSE /\ pc' = "gecko"
              /\ dexMap' = s.map
              /\ results' = res1
              /\ ids' = idList
              /\ idxForId' = idx
              /\ caught' = IF dex.pc = "rejected" THEN caught \cup {"dexscreener"} ELSE caught
              /\ gecko' = IF idList # <<>> THEN GeckoCall(idList, [batchSize |-> PipelineGeckoBatch]) ELSE gecko
  /\ UNCHANGED <<probe, tokens, cacheEnabled, cache, now, run, ci, needFetchIdx, hits, single,
                 addresses,
                 geckoMap, slugs, idxForSlug, cmcMap, dex, cmc>>

\* Lines 115-145: the CoinGecko call settled (or was skipped for want of ids);
\* fill from its map, then build the CMC slug list and call the adapter.
CoingeckoSettled ==
  /\ pc = "gecko"
  /\ ids = <<>> \/ Settled(gecko)
  /\ LET s == IF ids = <<>> THEN [rejected |-> FALSE, map |-> EmptyMap] ELSE CatchBatch(gecko)
         res1 == applySlugMap(results, idxForId, s.map, GeckoIdOf, "coingecko", now)
         idx == cmcIdx(res1)
         slugList == [j \in 1..Len(idx) |-> CmcSlugOf(tokens[idx[j]])]
     IN  IF s.rejected
         THEN /\ pc' = "rejected"
              /\ UNCHANGED <<results, geckoMap, slugs, idxForSlug, caught, cmc>>
         ELSE /\ pc' = "cmc"
              /\ geckoMap' = s.map
              /\ results' = res1
              /\ slugs' = slugList
              /\ idxForSlug' = idx
              /\ caught' = IF ids # <<>> /\ gecko.pc = "rejected"
                           THEN caught \cup {"coingecko"} ELSE caught
              /\ cmc' = IF slugList # <<>> THEN CmcCall(slugList, [concurrency |-> PipelineCmcConcurrency])
                        ELSE cmc
  /\ UNCHANGED <<probe, tokens, cacheEnabled, cache, now, run, ci, needFetchIdx, hits, single,
                 addresses,
                 dexMap, ids, idxForId, cmcMap, dex, gecko>>

\* Lines 145-155: the CMC call settled (or was skipped); fill from its map.
CmcSettled ==
  /\ pc = "cmc"
  /\ slugs = <<>> \/ Settled(cmc)
  /\ LET s == IF slugs = <<>> THEN [rejected |-> FALSE, map |-> EmptyMap] ELSE CatchBatch(cmc)
         res1 == applySlugMap(results, idxForSlug, s.map, CmcSlugOf, "cmc", now)
     IN  IF s.rejected
         THEN /\ pc' = "rejected"
              /\ UNCHANGED <<results, cmcMap, caught>>
         ELSE /\ pc' = "fill"
              /\ cmcMap' = s.map
              /\ results' = res1
              /\ caught' = IF slugs # <<>> /\ cmc.pc = "rejected"
                           THEN caught \cup {"cmc"} ELSE caught
  /\ UNCHANGED <<probe, tokens, cacheEnabled, cache, now, run, ci, needFetchIdx, hits, single,
                 addresses,
                 dexMap, ids, idxForId, geckoMap, slugs, idxForSlug, dex, gecko, cmc>>

\* Faulty variant: the pipeline stores what it resolved.
cacheWrittenByRun(store, res) ==
  [key \in DOMAIN store \cup {cacheKey(res[i].chain, res[i].address) : i \in 1..Len(res)} |->
     IF \E i \in 1..Len(res) : cacheKey(res[i].chain, res[i].address) = key
     THEN res[CHOOSE i \in 1..Len(res) : cacheKey(res[i].chain, res[i].address) = key]
     ELSE store[key]]

\* The store when fetchAllPrices returns res: the function imports cacheGet
\* and cacheKey only (line 5) and writes nothing.
cacheAfterRun(store, res) == store

\* Lines 158-166: every slot still empty gets an explicit unknown; return.
Finalize ==
  /\ pc = "fill"
  /\ results' = fillRemaining(results, now)
  /\ pc' = "done"
  /\ cache' = cacheAfterRun(cache, results')
  /\ UNCHANGED <<probe, tokens, cacheEnabled, now, run, ci, needFetchIdx, hits, single,
                 addresses, dexMap, ids, idxForId, geckoMap, slugs, idxForSlug, cmcMap,
                 caught, dex, gecko, cmc>>

(***************************************************************************)
(* storage.ts: storeResults, called by runOnce after the run.              *)
(***************************************************************************)
\* JSON.parse(JSON.stringify(value)): what cacheGet reads back of a value
\* cacheSet wrote. JSON has no NaN: a NaN number is written as null.
jsonRoundTrip(r) ==
  [r EXCEPT !.priceUsd = IF r.priceUsd = NaN THEN Null ELSE r.priceUsd]

\* Faulty variant: only the results with a known price are written.
StoreEffectsForKnownOnly(res, outcomes) ==
  LET keyOf(i) == cacheKey(res[i].chain, res[i].address)
      W == {i \in 1..Len(res) : cacheSetOf(outcomes[i]).value /\ res[i].priceUsd # Null}
      keys == {keyOf(i) : i \in W}
  IN  {[raised |-> \E i \in 1..Len(res) : cacheSetOf(outcomes[i]).raised,
        sent |-> \E i \in 1..Len(res) : cacheSetOf(outcomes[i]).sent,
        written |-> keys,
        cache |-> [key \in DOMAIN cache \cup keys |->
                     IF key \in keys THEN jsonRoundTrip(res[last[key]]) ELSE cache[key]]] :
       last \in {l \in [keys -> W] : \A key \in keys : keyOf(l[key]) = key}}

\* Promise.all(results.map(r => cacheSet(cacheKey(r.chain, r.address), r)))
\* for given outcomes of the SET requests: each SET may fail silently; of the
\* SETs of one key that land, any may land last; an exception out of a
\* cacheSet would reject storeResults.
StoreEffectsFor(res, outcomes) ==
  LET keyOf(i) == cacheKey(res[i].chain, res[i].address)
      W == {i \in 1..Len(res) : cacheSetOf(outcomes[i]).value}
      keys == {keyOf(i) : i \in W}
  IN  {[raised |-> \E i \in 1..Len(res) : cacheSetOf(outcomes[i]).raised,
        sent |-> \E i \in 1..Len(res) : cacheSetOf(outcomes[i]).sent,
        written |-> keys,
        cache |-> [key \in DOMAIN cache \cup keys |->
                     IF key \in keys THEN jsonRoundTrip(res[last[key]]) ELSE cache[key]]] :
       last \in {l \in [keys -> W] : \A key \in keys : keyOf(l[key]) = key}}

\* What storeResults(res) can come to: whether it raised, whether it sent a
\* request, the keys whose SET landed, the contents of the store afterwards.
StoreEffects(res) ==
  IF ~cacheEnabled THEN {[raised |-> FALSE, sent |-> FALSE, written |-> {}, cache |-> cache]}
  ELSE UNION {StoreEffectsFor(res, outcomes) : outcomes \in [1..Len(res) -> StoreOutcomes]}

\* runOnce: await storeResults(results) after the run.
storeResults ==
  /\ pc = "done"
  /\ \E e \in StoreEffects(results) :
       /\ pc' = IF e.raised THEN "rejected" ELSE "idle"
       /\ cache' = e.cache
  /\ UNCHANGED <<probe, tokens, cacheEnabled, now, run, ci, results, needFetchIdx, hits, single,
                 addresses,
                 dexMap, ids, idxForId, geckoMap, slugs, idxForSlug, cmcMap, caught,
                 dex, gecko, cmc>>

\* SET ... EX ttl: a stored entry expires.
Expire ==
  /\ pc = "idle"
  /\ run < MaxRuns
  /\ \E key \in DOMAIN cache : cache' = [k \in DOMAIN cache \ {key} |-> cache[k]]
  /\ UNCHANGED <<probe, tokens, cacheEnabled, now, run, pc, ci, results, needFetchIdx, hits, single,
                 addresses,
                 dexMap, ids, idxForId, geckoMap, slugs, idxForSlug, cmcMap, caught,
                 dex, gecko, cmc>>

(***************************************************************************)
(* core/fetchPrice.ts: fetchPriceForToken, and the single lookups it uses. *)
(***************************************************************************)
\* fetchDexscreenerPrice(address).catch(() => null): null when the request
\* fails on every attempt, else the price picked from the answer.
DexSinglePrices == {Null} \cup {DexscreenerPriceOf(pairs) : pairs \in DexResponses}

\* fetchCoingeckoPriceById(id): null when the request fails, else
\* data[id.toLowerCase()].usd as a number, null when it is absent.
GeckoSinglePrices ==
  {Null} \cup {IF usd.k # "null" THEN ToNumber(usd) ELSE Null : usd \in GeckoUsdPool}

\* fetchCmcPriceBySlug(slug)
CmcSinglePrices ==
  {CmcPriceBySlugOf(q1, html, q2).price :
     q1 \in CmcQuoteOutcomes, html \in CmcHtmlOutcomes, q2 \in CmcQuoteOutcomes}

\* Faulty variant: CMC is asked before CoinGecko.
fetchPriceForTokenCmcFirst(t, cached, p1, p2, p3, at) ==
  IF Filled(cached) THEN cached
  ELSE IF NotNullish(p1)
    THEN toPriceResult(t.chain, t.contract_address, p1, "dexscreener", at)
  ELSE IF t.cmc_slug # NullStr /\ NotNullish(p3)
    THEN toPriceResult(t.chain, t.contract_address, p3, "cmc", at)
  ELSE IF t.coingecko_id # NullStr /\ NotNullish(p2)
    THEN toPriceResult(t.chain, t.contract_address, p2, "coingecko", at)
  ELSE toPriceResult(t.chain, t.contract_address, Null, NullSource, at)

\* Lines 18-42, for the values the awaited calls produced.
fetchPriceForTokenOf(t, cached, p1, p2, p3, at) ==
  IF Filled(cached) THEN cached
  ELSE IF NotNullish(p1)
    THEN toPriceResult(t.chain, t.contract_address, p1, "dexscreener", at)
  ELSE IF t.coingecko_id # NullStr /\ NotNullish(p2)
    THEN toPriceResult(t.chain, t.contract_address, p2, "coingecko", at)
  ELSE IF t.cmc_slug # NullStr /\ NotNullish(p3)
    THEN toPriceResult(t.chain, t.contract_address, p3, "cmc", at)
  ELSE toPriceResult(t.chain, t.contract_address, Null, NullSource, at)

\* One call of fetchPriceForToken, between runs.
FetchPriceForToken ==
  /\ pc = "idle"
  /\ run < MaxRuns
  /\ single = Undefined
  /\ \E i \in 1..N :
       \E r \in cacheGet(cacheKey(tokens[i].chain, tokens[i].contract_address)),
          p1 \in DexSinglePrices, p2 \in GeckoSinglePrices, p3 \in CmcSinglePrices :
         IF r.raised
         THEN pc' = "rejected" /\ UNCHANGED single
         ELSE /\ single' = fetchPriceForTokenOf(tokens[i], r.value, p1, p2, p3, now)
              /\ pc' = pc
  /\ UNCHANGED <<probe, tokens, cacheEnabled, cache, now, run, ci, results, needFetchIdx, hits,
                 addresses, dexMap, ids, idxForId, geckoMap, slugs, idxForSlug, cmcMap,
                 caught, dex, gecko, cmc>>

(***************************************************************************)
(* The pipeline with its adapters.                                         *)
(***************************************************************************)
\* The store when the process starts: empty, or holding under the first
\* token's key a string that does not parse.
StoreAtStart(toks) ==
  {EmptyMap} \cup
  (IF toks = <<>> THEN {}
   ELSE {[key \in {cacheKey(toks[1].chain, toks[1].contract_address)} |-> Malformed]})

Init ==
  /\ probe = NoProbe
  /\ tokens \in TokenLists
  /\ cacheEnabled \in BOOLEAN
  /\ cache \in StoreAtStart(tokens)
  /\ now = 0
  /\ run = 0
  /\ pc = "idle"
  /\ ci = 1
  /\ results = <<>>
  /\ needFetchIdx = <<>>
  /\ hits = {}
  /\ single = Undefined
  /\ addresses = <<>> /\ dexMap = EmptyMap
  /\ ids = <<>> /\ idxForId = <<>> /\ geckoMap = EmptyMap
  /\ slugs = <<>> /\ idxForSlug = <<>> /\ cmcMap = EmptyMap
  /\ caught = {}
  /\ dex = DexIdle /\ gecko = GeckoIdle /\ cmc = CmcIdle

Next ==
  \/ StartRun
  \/ CacheRead
  \/ AllFromCache
  \/ CallDexscreener
  \/ DexRequestFails
  \/ DexRequestAnswers
  \/ DexFallbackFails
  \/ DexFallbackAnswers
  \/ DexscreenerSettled
  \/ GeckoRequestFails
  \/ GeckoRequestAnswers
  \/ CoingeckoSettled
  \/ CmcGroupStarts
  \/ CmcLookupSettles
  \/ CmcGroupSettles
  \/ CmcSettled
  \/ Finalize
  \/ storeResults
  \/ Expire
  \/ FetchPriceForToken

Spec == Init /\ [][Next]_vars

(***************************************************************************)
(* The batch adapters called directly, with options of the caller's        *)
(* choice (scripts/test-dex.ts, test-gecko.ts, test-cmc.ts).               *)
(***************************************************************************)
DirectAddrPool == {"0xAA", "0xaa", " 0xBB ", ""}
DirectIdPool == {"pepe", "Pepe", "doge", NullStr}
DirectSlugPool == {"pepe-coin", "Pepe-Coin", "doge-coin", NullStr}
DirectSizePool == {0, 1, 2, 300}

\* The opts of a direct call: a size given as batchSize and concurrency, or none.
DirectOpts == {NoSizeOpts} \cup {[batchSize |-> n, concurrency |-> n] : n \in DirectSizePool}

KeyLists(pool) == UNION {[1..n -> pool] : n \in 0..MaxKeys}

InitAdapters ==
  /\ probe = NoProbe
  /\ tokens = <<>>
  /\ cacheEnabled = FALSE
  /\ cache = EmptyMap
  /\ now = 0
  /\ run = 0
  /\ pc = "direct"
  /\ ci = 1
  /\ results = <<>>
  /\ needFetchIdx = <<>>
  /\ hits = {}
  /\ single = Undefined
  /\ dexMap = EmptyMap
  /\ idxForId = <<>> /\ geckoMap = EmptyMap
  /\ idxForSlug = <<>> /\ cmcMap = EmptyMap
  /\ caught = {}
  /\ \E opts \in DirectOpts :
       \/ /\ addresses \in KeyLists(DirectAddrPool)
          /\ dex = DexCall(addresses, opts)
          /\ ids = <<>> /\ slugs = <<>>
          /\ gecko = GeckoIdle /\ cmc = CmcIdle
       \/ /\ ids \in KeyLists(DirectIdPool)
          /\ gecko = GeckoCall(ids, opts)
          /\ addresses = <<>> /\ slugs = <<>>
          /\ dex = DexIdle /\ cmc = CmcIdle
       \/ /\ slugs \in KeyLists(DirectSlugPool)
          /\ cmc = CmcCall(slugs, opts)
          /\ addresses = <<>> /\ ids = <<>>
          /\ dex = DexIdle /\ gecko = GeckoIdle

NextAdapters ==
  \/ DexRequestFails
  \/ DexRequestAnswers
  \/ DexFallbackFails
  \/ DexFallbackAnswers
  \/ GeckoRequestFails
  \/ GeckoRequestAnswers
  \/ CmcGroupStarts
  \/ CmcLookupSettles
  \/ CmcGroupSettles

SpecAdapters == InitAdapters /\ [][NextAdapters]_vars

(***************************************************************************)
(* Properties.                                                             *)
(***************************************************************************)
Consistent(r) == (r.source = NullSource) <=> (r.priceUsd = Null)

\* What each provider's adapter returned for token t's key in this run
\* (null when the token has no key for it, or the call gave nothing).
DexAnswer(t) == Lookup(dexMap, toLowerCase(t.contract_address))
GeckoAnswer(t) == IF GeckoIdOf(t) = "" THEN Null ELSE Lookup(geckoMap, GeckoIdOf(t))
CmcAnswer(t) == IF CmcSlugOf(t) = "" THEN Null ELSE Lookup(cmcMap, CmcSlugOf(t))

\* C1 (first provider wins): when a run has returned, every cache-miss slot
\* carries the price and the name of the first provider, in the order
\* Dexscreener, CoinGecko, CMC, whose adapter returned a known price for the
\* token's key, and unknown price and source when none did.
C1_FirstProviderWins ==
  pc = "done" =>
    \A i \in Range(needFetchIdx) :
      LET t == tokens[i]
      IN  IF NotNullish(DexAnswer(t))
          THEN results[i].source = "dexscreener" /\ results[i].priceUsd = DexAnswer(t)
          ELSE IF NotNullish(GeckoAnswer(t))
          THEN results[i].source = "coingecko" /\ results[i].priceUsd = GeckoAnswer(t)
          ELSE IF NotNullish(CmcAnswer(t))
          THEN results[i].source = "cmc" /\ results[i].priceUsd = CmcAnswer(t)
          ELSE results[i].source = NullSource /\ results[i].priceUsd = Null

\* A run returned with one token priced by CoinGecko after Dexscreener gave
\* nothing for it, and another priced by CMC after both gave nothing.
C1_Witness ==
  /\ pc = "done"
  /\ \E i, j \in Range(needFetchIdx) :
       /\ results[i].source = "coingecko" /\ ~NotNullish(DexAnswer(tokens[i]))
       /\ results[j].source = "cmc" /\ ~NotNullish(GeckoAnswer(tokens[j]))

\* C2 (order preservation): when a run has returned, the result list has the
\* length of the token list and slot i carries the chain and the lower-cased
\* address of token i, whatever was hit, missed or failed.
C2_OrderPreserved ==
  pc = "done" =>
    /\ Len(results) = Len(tokens)
    /\ \A i \in 1..Len(tokens) :
         /\ results[i].chain = tokens[i].chain
         /\ results[i].address = toLowerCase(tokens[i].contract_address)

\* A run of two tokens returned with one slot from the cache, one resolved
\* afresh, and the Dexscreener batch call having failed.
C2_Witness ==
  /\ pc = "done"
  /\ Len(tokens) = 2
  /\ Cardinality(hits) = 1
  /\ Len(needFetchIdx) = 1
  /\ "dexscreener" \in caught

\* C3 (source/price consistency): every PriceResult in a result slot of
\* fetchAllPrices or returned by fetchPriceForToken, freshly resolved or
\* served from the cache, has source unknown exactly when priceUsd is unknown.
C3_SourcePriceConsistent ==
  /\ \A i \in 1..Len(results) : Filled(results[i]) => Consistent(results[i])
  /\ Filled(single) => Consistent(single)

NoKnownPrice(map) == \A key \in DOMAIN map : ~NotNullish(map[key])

\* C4 (graceful degradation): when a run has returned, every slot holds a
\* PriceResult, and if no adapter gave a known price for any key (every call
\* failing included) every cache-miss slot holds unknown price and source.
C4_FullyPopulated ==
  pc = "done" =>
    /\ \A i \in 1..Len(tokens) : Filled(results[i])
    /\ (NoKnownPrice(dexMap) /\ NoKnownPrice(geckoMap) /\ NoKnownPrice(cmcMap)) =>
         \A i \in Range(needFetchIdx) :
           results[i].priceUsd = Null /\ results[i].source = NullSource

\* A run of two cache misses returned after the Dexscreener call failed and
\* the other two adapters were called and priced nothing.
C4_Witness ==
  /\ pc = "done"
  /\ Len(needFetchIdx) = 2
  /\ "dexscreener" \in caught
  /\ ids # <<>> /\ slugs # <<>>
  /\ NoKnownPrice(geckoMap) /\ NoKnownPrice(cmcMap)

\* C5 (priority correctness): a token for whose address the Dexscreener
\* adapter returned a known price contributes no key to the CoinGecko or CMC
\* key list of the run, and a token CoinGecko priced contributes none to CMC's.
C5_NoLaterProviderConsulted ==
  /\ \A i \in Range(idxForId) \cup Range(idxForSlug) : ~NotNullish(DexAnswer(tokens[i]))
  /\ \A i \in Range(idxForSlug) : ~NotNullish(GeckoAnswer(tokens[i]))
  /\ ids = [j \in 1..Len(idxForId) |-> GeckoIdOf(tokens[idxForId[j]])]
  /\ slugs = [j \in 1..Len(idxForSlug) |-> CmcSlugOf(tokens[idxForSlug[j]])]

\* Dexscreener priced a token that has both slugs, while another pending
\* token went on to CoinGecko and to CMC.
C5_Witness ==
  /\ pc = "fill"
  /\ \E i \in Range(needFetchIdx) :
       /\ results[i].source = "dexscreener"
       /\ GeckoIdOf(tokens[i]) # "" /\ CmcSlugOf(tokens[i]) # ""
  /\ idxForId # <<>> /\ idxForSlug # <<>>

\* C6 as stated: during a run, a token already read for whose (chain, address)
\* the cache holds a result is not pending, so that no provider is called
\* for it.
C6_AsStated ==
  pc \in {"cache", "dex", "gecko", "cmc", "fill", "done"} =>
    \A i \in 1..(ci - 1) :
      (cacheEnabled /\ cacheKey(tokens[i].chain, tokens[i].contract_address) \in DOMAIN cache)
        => i \notin Range(needFetchIdx)

\* C6 as amended (cache short-circuit): a token whose cache read returned a
\* result is never pending and contributes no key to any adapter call of the
\* run; when every token hit the cache, no adapter is invoked.
C6_CacheShortCircuit ==
  /\ hits \cap Range(needFetchIdx) = {}
  /\ hits \cap (Range(idxForId) \cup Range(idxForSlug)) = {}
  /\ addresses # <<>> =>
       addresses = [j \in 1..Len(needFetchIdx) |-> tokens[needFetchIdx[j]].contract_address]
  /\ (pc = "done" /\ hits = 1..Len(tokens)) =>
       dex = DexIdle /\ gecko = GeckoIdle /\ cmc = CmcIdle

\* A run of two tokens returned with one cache hit while the three adapters
\* were called for the other token.
C6_Witness ==
  /\ pc = "done"
  /\ Len(tokens) = 2
  /\ Cardinality(hits) = 1
  /\ dex.pc # "idle" /\ gecko.pc # "idle" /\ cmc.pc # "idle"

\* C7 (provider failure is contained): fetchAllPrices never rejects, and a
\* batch call that rejected leaves the pending set as it was while the
\* pipeline moves on to the next provider.
C7_FailureContained ==
  /\ [](pc # "rejected")
  /\ [][(pc = "dex" /\ dex.pc = "rejected" /\ pc' # pc) =>
          (pc' = "gecko" /\ Pending(results') = Pending(results))]_vars
  /\ [][(pc = "gecko" /\ gecko.pc = "rejected" /\ pc' # pc) =>
          (pc' = "cmc" /\ Pending(results') = Pending(results))]_vars
  /\ [][(pc = "cmc" /\ cmc.pc = "rejected" /\ pc' # pc) =>
          (pc' = "fill" /\ Pending(results') = Pending(results))]_vars

\* The Dexscreener call rejected, and the run went on to return a token
\* priced by CoinGecko in this run.
C7_Witness ==
  /\ pc = "done"
  /\ "dexscreener" \in caught
  /\ \E i \in Range(needFetchIdx) : results[i].source = "coingecko"

\* The effect of one provider pass on the pending set: exactly the pending
\* indices the provider priced leave it, filled with that price and source,
\* and no other slot changes.
PassEffect(Answer(_), source) ==
  LET before == Pending(results)
      after == Pending(results')
  IN  /\ after = {i \in before : ~NotNullish(Answer(tokens[i]))}
      /\ \A i \in before \ after :
           results'[i].source = source /\ results'[i].priceUsd = Answer(tokens[i])
      /\ \A i \in (1..Len(results)) \ (before \ after) : results'[i] = results[i]

DexAnswerAfter(t) == Lookup(dexMap', toLowerCase(t.contract_address))
GeckoAnswerAfter(t) == IF GeckoIdOf(t) = "" THEN Null ELSE Lookup(geckoMap', GeckoIdOf(t))
CmcAnswerAfter(t) == IF CmcSlugOf(t) = "" THEN Null ELSE Lookup(cmcMap', CmcSlugOf(t))

\* C8 (partial results are per key): each provider pass removes from the
\* pending set exactly the indices whose key the provider mapped to a known
\* price, fills those with the provider as source, and leaves every other
\* pending index pending for the next provider.
C8_PerKeyPartialResults ==
  /\ [][(pc = "dex" /\ pc' = "gecko") => PassEffect(DexAnswerAfter, "dexscreener")]_vars
  /\ [][(pc = "gecko" /\ pc' = "cmc") => PassEffect(GeckoAnswerAfter, "coingecko")]_vars
  /\ [][(pc = "cmc" /\ pc' = "fill") => PassEffect(CmcAnswerAfter, "cmc")]_vars

\* After the Dexscreener pass one pending token is filled by it and another,
\* whose address the map holds as unknown, is still pending.
C8_Witness ==
  /\ pc = "gecko"
  /\ \E i, j \in Range(needFetchIdx) :
       /\ results[i].source = "dexscreener"
       /\ ~Filled(results[j])
       /\ toLowerCase(tokens[j].contract_address) \in DOMAIN dexMap

\* C9 (the Dexscreener batch adapter never raises): the adapter never
\* rejects; when it returns, the keys of a sub-batch whose request failed on
\* every attempt are unknown in the map.
C9_DexBatchNeverRaises ==
  /\ dex.pc # "rejected"
  /\ dex.pc = "returned" => \A key \in dex.threw : dex.out[key] = Null

KeyString(x) == IF x = NullStr THEN "" ELSE x

\* A value of an adapter map: null or a number (NaN included).
IsPriceOrNull(p) == p.k \in {"null", "num", "nan"}

RECURSIVE Flatten(_, _)
\* The elements of the sequences of seqs from the n-th on, in order.
Flatten(seqs, n) == IF n > Len(seqs) THEN <<>> ELSE seqs[n] \o Flatten(seqs, n + 1)

\* The keys submitted so far in the batch requests of the invocation.
DexSentKeys(d) == LET sent == Flatten(d.reqs, 1) IN [j \in 1..Len(sent) |-> sent[j].key]
GeckoSentKeys(g) == Flatten(g.reqs, 1)

\* No element occurs twice in the sequence.
NoRepeat(q) == \A a, b \in 1..Len(q) : a # b => q[a] # q[b]

\* C12 (adapters de-duplicate keys): in one adapter invocation no key is
\* submitted twice across its batch requests (Dexscreener, CoinGecko) or slug
\* lookups (CMC), however often and in whatever letter case it was passed in,
\* and once the invocation has returned every distinct key was submitted
\* exactly once.
C12_KeysSubmittedOnce ==
  /\ NoRepeat(DexSentKeys(dex)) /\ NoRepeat(GeckoSentKeys(gecko)) /\ NoRepeat(cmc.lookups)
  /\ dex.pc = "returned" => Range(DexSentKeys(dex)) = DOMAIN dex.out
  /\ gecko.pc = "returned" => Range(GeckoSentKeys(gecko)) = DOMAIN gecko.out
  /\ cmc.pc = "returned" => Range(cmc.lookups) = DOMAIN cmc.out

\* The Dexscreener adapter returned after two batch requests for a list of
\* three keys, two of which differ in letter case only.
C12_Witness ==
  /\ dex.pc = "returned"
  /\ Len(addresses) = 3
  /\ "0xAA" \in Range(addresses) /\ "0xaa" \in Range(addresses)
  /\ Len(dex.reqs) = 2

(***************************************************************************)
(* Upstream calls of one run.                                              *)
(***************************************************************************)
\* The keys of the addresses the fallback looked up one by one.
DexSingleKeys(d) == [j \in 1..Len(d.singles) |-> toLowerCase(d.singles[j])]

\* C13 as stated: in one run, for each provider and each identifier, at most
\* one upstream call covers the identifier - for Dexscreener the batch
\* requests and the individual lookups taken together.
C13_AsStated ==
  /\ NoRepeat(DexSentKeys(dex) \o DexSingleKeys(dex))
  /\ NoRepeat(GeckoSentKeys(gecko))
  /\ NoRepeat(cmc.lookups)

\* C13 as amended: in one run each identifier is covered by at most one batch
\* request per provider (one slug lookup for CMC) and, for Dexscreener, by at
\* most one individual fallback lookup, made only for an identifier the batch
\* request covered.
C13_OneBatchCallPerIdentifier ==
  /\ NoRepeat(DexSentKeys(dex))
  /\ NoRepeat(DexSingleKeys(dex))
  /\ Range(DexSingleKeys(dex)) \subseteq Range(DexSentKeys(dex))
  /\ NoRepeat(GeckoSentKeys(gecko))
  /\ NoRepeat(cmc.lookups)

\* A run returned in which two pending tokens had the same address in two
\* letter cases and two pending tokens the same CoinGecko id, after the
\* Dexscreener fallback looked the address up.
C13_Witness ==
  /\ pc = "done"
  /\ Len(needFetchIdx) = 2
  /\ toLowerCase(addresses[1]) = toLowerCase(addresses[2])
  /\ Len(dex.singles) = 1
  /\ Len(ids) = 2 /\ ids[1] = ids[2]
  /\ Len(GeckoSentKeys(gecko)) = 1

(***************************************************************************)
(* The Dexscreener and CoinGecko adapters called with key lists long       *)
(* enough for the caps on the batch size to bind.  probe records the call: *)
(* the number of distinct keys and the opts.                               *)
(***************************************************************************)
MaxRequests == 6

\* n distinct keys "k1" .. "kn", followed by a repetition of the first when dup.
KeySeq(n, dup) ==
  [j \in 1..n |-> "k" \o ToString(j)] \o (IF dup /\ n > 0 THEN <<"k1">> ELSE <<>>)

DexBatchLens == {1, 2, 29, 30, 31, 60, 61}
GeckoBatchLens == {1, 2, 149, 150, 151, 250, 251, 501}
BatchSizePool == {-3, 0, 1, 7, 30, 31, 150, 250, 251, 1000}

\* The opts of a call: a batchSize, or none.
BatchOpts == {NoSizeOpts} \cup {[batchSize |-> b] : b \in BatchSizePool}

\* The calls explored are those that make at most MaxRequests batch requests.
FewRequests(n, opts, default) == n <= MaxRequests * Max(1, OptOr(opts, "batchSize", default))

CmcBatchLens == {1, 4, 5, 10, 11}
ConcurrencyPool == {-3, 0, 1, 4, 10, 11, 300}

\* The opts of a CMC call: a concurrency, or none.
CmcBatchOpts == {NoSizeOpts} \cup {[concurrency |-> c] : c \in ConcurrencyPool}

InitBatches ==
  /\ tokens = <<>>
  /\ cacheEnabled = FALSE
  /\ cache = EmptyMap
  /\ now = 0
  /\ run = 0
  /\ pc = "batches"
  /\ ci = 1
  /\ results = <<>>
  /\ needFetchIdx = <<>>
  /\ hits = {}
  /\ single = Undefined
  /\ dexMap = EmptyMap
  /\ idxForId = <<>> /\ geckoMap = EmptyMap
  /\ idxForSlug = <<>> /\ cmcMap = EmptyMap
  /\ caught = {}
  /\ \E dup \in BOOLEAN :
       \/ \E opts \in BatchOpts, n \in DexBatchLens :
            /\ FewRequests(n, opts, DexDefaultBatch)
            /\ probe = [fn |-> "fetchDexscreenerBatchByTokens", n |-> n, opts |-> opts]
            /\ addresses = KeySeq(n, dup)
            /\ dex = DexCall(addresses, opts)
            /\ ids = <<>> /\ slugs = <<>>
            /\ gecko = GeckoIdle /\ cmc = CmcIdle
       \/ \E opts \in BatchOpts, n \in GeckoBatchLens :
            /\ FewRequests(n, opts, GeckoDefaultBatch)
            /\ probe = [fn |-> "fetchCoingeckoBatchByIds", n |-> n, opts |-> opts]
            /\ ids = KeySeq(n, dup)
            /\ gecko = GeckoCall(ids, opts)
            /\ addresses = <<>> /\ slugs = <<>>
            /\ dex = DexIdle /\ cmc = CmcIdle
       \/ \E opts \in CmcBatchOpts, n \in CmcBatchLens :
            /\ probe = [fn |-> "fetchCmcBatchBySlugs", n |-> n, opts |-> opts]
            /\ slugs = KeySeq(n, dup)
            /\ cmc = CmcCall(slugs, opts)
            /\ addresses = <<>> /\ ids = <<>>
            /\ dex = DexIdle /\ gecko = GeckoIdle

NextBatches ==
  \/ DexRequestFails
  \/ DexRequestAnswers
  \/ DexFallbackFails
  \/ DexFallbackAnswers
  \/ GeckoRequestFails
  \/ GeckoRequestAnswers
  \/ CmcGroupStarts
  \/ CmcLookupSettles
  \/ CmcGroupSettles

SpecBatches == InitBatches /\ [][NextBatches]_vars

\* The batchSize option of the probed call, with the adapter's default when absent.
ConfiguredSize(default) == OptOr(probe.opts, "batchSize", default)

\* C14: whatever batchSize option is passed, no Dexscreener batch request
\* carries more than 30 identifiers nor more than the configured size
\* (default 30), no CoinGecko batch request carries more than 250 identifiers
\* nor more than the configured size (default 150), and with a configured size
\* below 1 every request carries exactly one identifier.
C14_BatchSizeCaps ==
  /\ \A j \in 1..Len(dex.reqs) :
       /\ Len(dex.reqs[j]) <= 30
       /\ Len(dex.reqs[j]) <= Max(1, ConfiguredSize(30))
       /\ ConfiguredSize(30) < 1 => Len(dex.reqs[j]) = 1
  /\ \A j \in 1..Len(gecko.reqs) :
       /\ Len(gecko.reqs[j]) <= 250
       /\ Len(gecko.reqs[j]) <= Max(1, ConfiguredSize(150))
       /\ ConfiguredSize(150) < 1 => Len(gecko.reqs[j]) = 1

\* CoinGecko called with 251 ids and batchSize 1000 has sent 250 ids, then 1.
C14_Witness ==
  /\ probe.fn = "fetchCoingeckoBatchByIds"
  /\ probe.n = 251
  /\ ConfiguredSize(150) = 1000
  /\ gecko.pc = "returned"
  /\ Len(gecko.reqs) = 2
  /\ Len(gecko.reqs[1]) = 250
  /\ Len(gecko.reqs[2]) = 1

\* ceil(n / b) for b > 0
Ceil(n, b) == (n + b - 1) \div b

\* The maximum batch size of the probed Dexscreener call.
DexBatchSizeOf == Max(1, Min(30, ConfiguredSize(30)))

\* C15 as stated: a Dexscreener call on n distinct addresses that has returned
\* has issued exactly ceil(n/b) upstream requests, batch requests and
\* individual lookups together.
C15_AsStated ==
  (probe.fn = "fetchDexscreenerBatchByTokens" /\ dex.pc = "returned")
    => Len(dex.reqs) + Len(dex.singles) = Ceil(probe.n, DexBatchSizeOf)

\* C15: for n distinct addresses and maximum batch size b, the Dexscreener
\* adapter never issues more than ceil(n/b) batch requests and has issued
\* exactly ceil(n/b) of them when it returns (31 addresses, batch size 30: 2);
\* the individual lookups of the fallback come on top, at most one per address.
C15_BatchRequestCount ==
  probe.fn = "fetchDexscreenerBatchByTokens" =>
    /\ Len(dex.reqs) <= Ceil(probe.n, DexBatchSizeOf)
    /\ dex.pc = "returned" => Len(dex.reqs) = Ceil(probe.n, DexBatchSizeOf)
    /\ Len(dex.singles) <= probe.n

\* 31 addresses with batch size 30: returned after two requests, of 30 and of 1.
C15_Witness ==
  /\ probe.fn = "fetchDexscreenerBatchByTokens"
  /\ probe.n = 31
  /\ DexBatchSizeOf = 30
  /\ dex.pc = "returned"
  /\ Len(dex.reqs) = 2
  /\ Len(dex.reqs[1]) = 30
  /\ Len(dex.reqs[2]) = 1

(***************************************************************************)
(* The pure functions called on their own.  probe holds the arguments of   *)
(* the call and, once the function has been applied, its result.           *)
(***************************************************************************)
MaxPicked == 3

\* A pair, named by its base token.
Pair(id, priceUsd, liq, vol, marketCap, fdv) ==
  [base |-> id, quote |-> "weth", priceUsd |-> priceUsd,
   liq |-> liq, vol |-> vol, marketCap |-> marketCap, fdv |-> fdv]

\* Pairs tied on liquidity, on liquidity and volume, with the market cap
\* present, zero or absent; pairs without a price; a non-numeric price.
PickPairPool ==
  { Pair("a", RNum(1), RNum(5), RNum(2), RNull, RNum(7)),
    Pair("b", RNum(2), RNum(5), RNum(2), RNum(5), RNum(9)),
    Pair("c", RNum(3), RNum(5), RNum(2), RNum(0), RNum(9)),
    Pair("d", RStr(4), RNum(5), RNum(1), RNum(9), RNull),
    Pair("e", RNull, RNum(9), RNum(9), RNum(9), RNull),
    Pair("f", RNum(5), RNum(4), RNum(9), RNum(9), RNull),
    Pair("g", RBad, RNum(5), RNum(2), RNull, RNull),
    Pair("h", RNum(0), RNull, RNull, RNull, RNull) }

PickInputs == UNION {[1..n -> PickPairPool] : n \in 0..MaxPicked}

ChainPool == {"eth", "bsc"}
AddressPool == {"0xAA", "0xaa", " 0xBB "}
PricePool == {Null, Num(0), Num(5), NaN}
SourcePool == {"dexscreener", "coingecko", "cmc", NullSource}

\* The pairs of one token: without a price, with the number 0, a number, a
\* numeric string, a non-numeric string as price, at two liquidities.
OneAddressPairs ==
  {Pair("0xAA", priceUsd, liq, RNum(1), RNull, RNull) :
     priceUsd \in {RNull, RNum(0), RNum(1), RStr(2), RBad}, liq \in {RNum(5), RNum(9)}}

OneAddressResponses == UNION {[1..n -> OneAddressPairs] : n \in 0..MaxPairs}

\* out[key] of fetchDexscreenerBatchByTokens([address]) when the sub-batch
\* request and, if it is made, the fallback lookup are answered the same
\* pairs (dexscreener.ts:142-169 for a chunk of one address).
DexBatchOneOf(address, pairs) ==
  LET key == toLowerCase(Trim(address))
      assigned == DexBatchPriceOf(pairs, key)
      price == DexscreenerPriceOf(pairs)
  IN  IF (pairs = <<>> \/ ~NotNullish(assigned)) /\ NotNullish(price) THEN price ELSE assigned

\* Every variable but probe.
pipeRest ==
  <<tokens, cacheEnabled, cache, now, run, pc, ci, results, needFetchIdx, hits, single,
    addresses, dexMap, ids, idxForId, geckoMap, slugs, idxForSlug, cmcMap, caught>>

InitPure ==
  /\ tokens = <<>>
  /\ cacheEnabled = FALSE
  /\ cache = EmptyMap
  /\ now = 0
  /\ run = 0
  /\ pc = "pure"
  /\ ci = 1
  /\ results = <<>>
  /\ needFetchIdx = <<>>
  /\ hits = {}
  /\ single = Undefined
  /\ addresses = <<>> /\ dexMap = EmptyMap
  /\ ids = <<>> /\ idxForId = <<>> /\ geckoMap = EmptyMap
  /\ slugs = <<>> /\ idxForSlug = <<>> /\ cmcMap = EmptyMap
  /\ caught = {}
  /\ dex = DexIdle /\ gecko = GeckoIdle /\ cmc = CmcIdle
  /\ \/ \E pairs \in PickInputs :
          probe = [fn |-> "pickBestPair", at |-> "called", pairs |-> pairs, best |-> NoPair]
     \/ \E chain \in ChainPool, address \in AddressPool,
           priceUsd \in PricePool, source \in SourcePool :
          probe = [fn |-> "toPriceResult", at |-> "called", chain |-> chain,
                   address |-> address, priceUsd |-> priceUsd, source |-> source,
                   result |-> Undefined]
     \/ \E address \in {"0xAA", "0xaa"}, pairs \in OneAddressResponses :
          probe = [fn |-> "dexscreener", at |-> "called", address |-> address,
                   pairs |-> pairs, single |-> Null, batch |-> Null]
     \/ \E q1 \in CmcQuoteOutcomes, html \in CmcHtmlOutcomes, q2 \in CmcQuoteOutcomes :
          probe = [fn |-> "fetchCmcPriceBySlug", at |-> "called", bySlug |-> q1,
                   html |-> html, byId |-> q2, price |-> Null]

\* pickBestPair(pairs) is applied.
ApplyPickBestPair ==
  /\ probe.fn = "pickBestPair"
  /\ probe.at = "called"
  /\ probe' = [probe EXCEPT !.at = "returned", !.best = pickBestPair(probe.pairs)]
  /\ UNCHANGED <<pipeRest, dex, gecko, cmc>>

\* toPriceResult(chain, address, priceUsd, source) is applied.
ApplyToPriceResult ==
  /\ probe.fn = "toPriceResult"
  /\ probe.at = "called"
  /\ probe' = [probe EXCEPT
                 !.at = "returned",
                 !.result = toPriceResult(probe.chain, probe.address,
                                          probe.priceUsd, probe.source, now)]
  /\ UNCHANGED <<pipeRest, dex, gecko, cmc>>

\* fetchDexscreenerPrice(address) and fetchDexscreenerBatchByTokens([address])
\* are applied, the upstream answering the same pairs to both.
ApplyDexscreenerBoth ==
  /\ probe.fn = "dexscreener"
  /\ probe.at = "called"
  /\ probe' = [probe EXCEPT !.at = "returned",
                            !.single = DexscreenerPriceOf(probe.pairs),
                            !.batch = DexBatchOneOf(probe.address, probe.pairs)]
  /\ UNCHANGED <<pipeRest, dex, gecko, cmc>>

\* fetchCmcPriceBySlug(slug) is applied, for a slug that is not empty.
ApplyFetchCmcPriceBySlug ==
  /\ probe.fn = "fetchCmcPriceBySlug"
  /\ probe.at = "called"
  /\ probe' = [probe EXCEPT
                 !.at = "returned",
                 !.price = CmcPriceBySlugOf(probe.bySlug, probe.html, probe.byId).price]
  /\ UNCHANGED <<pipeRest, dex, gecko, cmc>>

NextPure ==
  \/ ApplyPickBestPair
  \/ ApplyToPriceResult
  \/ ApplyDexscreenerBoth
  \/ ApplyFetchCmcPriceBySlug

SpecPure == InitPure /\ [][NextPure]_vars

\* The amount of an optional field, 0 when absent.
Amount(raw) == IF raw.k = "null" THEN 0 ELSE raw.v

\* The market cap, the fully diluted valuation when the market cap is absent.
CapIfAbsent(p) == IF p.marketCap.k = "null" THEN Amount(p.fdv) ELSE Amount(p.marketCap)

\* The market cap, the fully diluted valuation when the market cap is absent or zero.
CapIfAbsentOrZero(p) == IF Amount(p.marketCap) = 0 THEN Amount(p.fdv) ELSE Amount(p.marketCap)

\* The pairs of the probed call that carry a price.
Priced == {probe.pairs[j] : j \in {m \in 1..Len(probe.pairs) : probe.pairs[m].priceUsd.k # "null"}}

\* best is a priced pair with the highest liquidity, among those the highest
\* volume, among those the highest cap as measured by Cap.
IsBest(best, Cap(_)) ==
  /\ best \in Priced
  /\ \A p \in Priced : Amount(p.liq) <= Amount(best.liq)
  /\ \A p \in Priced : Amount(p.liq) = Amount(best.liq) => Amount(p.vol) <= Amount(best.vol)
  /\ \A p \in Priced :
       (Amount(p.liq) = Amount(best.liq) /\ Amount(p.vol) = Amount(best.vol))
         => Cap(p) <= Cap(best)

\* C16 as stated: the last tie-break compares the market cap, and the fully
\* diluted valuation only for a pair whose market cap is absent.
C16_AsStated ==
  (probe.fn = "pickBestPair" /\ probe.at = "returned") =>
    IF Priced = {} THEN probe.best = NoPair
    ELSE probe.best # NoPair /\ IsBest(probe.best, CapIfAbsent)

\* C16: among the pairs that carry a price, pickBestPair returns one with the
\* highest USD liquidity, among those tied one with the highest 24h volume,
\* among those still tied one with the highest market cap, the fully diluted
\* valuation standing in when the market cap is absent or zero; it returns
\* none exactly when no pair carries a price.
C16_BestPairPicked ==
  (probe.fn = "pickBestPair" /\ probe.at = "returned") =>
    IF Priced = {} THEN probe.best = NoPair
    ELSE probe.best # NoPair /\ IsBest(probe.best, CapIfAbsentOrZero)

\* Three priced pairs tied on liquidity and volume: the one whose zero market
\* cap gives way to the highest valuation is returned.
C16_Witness ==
  /\ probe.fn = "pickBestPair"
  /\ probe.at = "returned"
  /\ Len(probe.pairs) = 3
  /\ \A j \in 1..3 : probe.pairs[j].base \in {"a", "b", "c"}
  /\ Cardinality(Priced) = 3
  /\ probe.best.base = "c"

\* C20 as stated: for any price and any source argument, the record's source
\* is unknown if and only if its priceUsd is unknown, and its address is the
\* lower-cased input address.
C20_AsStated ==
  (probe.fn = "toPriceResult" /\ probe.at = "returned") =>
    /\ (probe.result.source = NullSource) <=> (probe.result.priceUsd = Null)
    /\ probe.result.address = toLowerCase(probe.address)

\* C20: toPriceResult returns a record with the input price and the
\* lower-cased input address, whose source is unknown when the price is
\* unknown and is the source argument otherwise; so with a provider name as
\* source argument the source is unknown if and only if priceUsd is unknown.
C20_NormalizerConsistency ==
  (probe.fn = "toPriceResult" /\ probe.at = "returned") =>
    /\ probe.result.priceUsd = probe.priceUsd
    /\ probe.result.address \in {"0xaa", " 0xbb "}
    /\ probe.result.address = toLowerCase(probe.address)
    /\ probe.priceUsd = Null => probe.result.source = NullSource
    /\ probe.priceUsd # Null => probe.result.source = probe.source
    /\ probe.source # NullSource =>
         ((probe.result.source = NullSource) <=> (probe.result.priceUsd = Null))

\* A provider name was passed with an unknown price and an upper-case address.
C20_Witness ==
  /\ probe.fn = "toPriceResult"
  /\ probe.at = "returned"
  /\ probe.source = "cmc"
  /\ probe.priceUsd = Null
  /\ probe.address = "0xAA"
  /\ probe.result.source = NullSource
  /\ probe.result.address = "0xaa"

\* The sub-batch of the last batch request.
LastReq(d) == d.reqs[Len(d.reqs)]

\* The last n elements of a sequence.
LastN(q, n) == SubSeq(q, Len(q) - n + 1, Len(q))

\* A batch request of the Dexscreener adapter is answered in this step.
DexAnswered ==
  /\ dex.pc = "request"
  /\ dex'.pc # "rejected"
  /\ Len(dex'.reqs) = Len(dex.reqs) + 1

\* C17: when a sub-batch request is answered, the fallback starts if and only
\* if no identifier of the sub-batch was assigned a price, and no individual
\* lookup is made otherwise; each step of the fallback looks up the next
\* identifier of that sub-batch and changes its entry alone, to the price found
\* or not at all; when the fallback ends every identifier of the sub-batch has
\* been looked up, in order; no individual lookup is made outside the fallback.
C17_FallbackPerIdentifier ==
  [][/\ DexAnswered =>
          /\ (dex'.pc = "fallback") <=>
               (\A j \in 1..Len(LastReq(dex')) : dex'.out[LastReq(dex')[j].key] = Null)
          /\ dex'.singles = dex.singles
     /\ dex.pc # "fallback" => dex'.singles = dex.singles
     /\ (dex.pc = "fallback" /\ dex' # dex) =>
          LET c == LastReq(dex)[dex.fb]
          IN  /\ dex'.singles = Append(dex.singles, c.original)
              /\ dex.out[c.key] = Null
              /\ dex'.out[c.key] = Null \/ IsFinite(dex'.out[c.key])
              /\ \A key \in DOMAIN dex.out \ {c.key} : dex'.out[key] = dex.out[key]
              /\ dex'.reqs = dex.reqs
              /\ dex'.pc # "fallback" =>
                   /\ Len(dex'.singles) >= Len(LastReq(dex))
                   /\ LastN(dex'.singles, Len(LastReq(dex))) =
                        [j \in 1..Len(LastReq(dex)) |-> LastReq(dex)[j].original]
    ]_vars

\* The adapter returned after a fallback over two addresses: one was priced
\* by its individual lookup, the other stayed unknown.
C17_Witness ==
  /\ dex.pc = "returned"
  /\ Len(dex.reqs) = 1
  /\ Len(dex.singles) = 2
  /\ \E k1, k2 \in DOMAIN dex.out : IsFinite(dex.out[k1]) /\ dex.out[k2] = Null

\* list is the lower-cased Field of the tokens at idxs, and idxs are, in the
\* order of the token list, the indices to fetch that have no result yet and
\* whose token has the Field.
SlugSubmission(list, idxs, Field(_)) ==
  /\ Len(list) = Len(idxs)
  /\ \A j \in 1..Len(idxs) : list[j] = toLowerCase(Field(tokens[idxs[j]]))
  /\ \A j \in 1..Len(idxs) - 1 : idxs[j] < idxs[j + 1]
  /\ Range(idxs) =
       {i \in Range(needFetchIdx) : ~Filled(results[i]) /\ Field(tokens[i]) # NullStr}

\* C18: when the CoinGecko block has built its key list, the list is the
\* (lower-cased) coingecko_id of the pending tokens that have one, and likewise
\* the CMC list the cmc_slug of the then-pending tokens that have one; a token
\* without the slug is not in the list, and an adapter is invoked in a run if
\* and only if its key list is not empty.
C18_SlugOnlySubmission ==
  /\ pc = "gecko" => SlugSubmission(ids, idxForId, LAMBDA tok : tok.coingecko_id)
  /\ pc = "cmc" => SlugSubmission(slugs, idxForSlug, LAMBDA tok : tok.cmc_slug)
  /\ pc \in {"cache", "dex"} => gecko = GeckoIdle /\ cmc = CmcIdle
  /\ pc \in {"gecko", "cmc", "fill", "done"} => (ids = <<>> <=> gecko = GeckoIdle)
  /\ pc = "gecko" => cmc = CmcIdle
  /\ pc \in {"cmc", "fill", "done"} => (slugs = <<>> <=> cmc = CmcIdle)
  /\ \A j \in 1..Len(ids) : ids[j] # ""
  /\ \A j \in 1..Len(slugs) : slugs[j] # ""

\* Two tokens are pending and neither has a coingecko_id: CoinGecko was not
\* invoked; only one has a cmc_slug: CMC was invoked with that slug alone.
C18_Witness ==
  /\ pc = "cmc"
  /\ Len(needFetchIdx) = 2
  /\ \A j \in 1..2 : ~Filled(results[needFetchIdx[j]])
  /\ ids = <<>>
  /\ gecko = GeckoIdle
  /\ Len(slugs) = 1
  /\ cmc.pc # "idle"

\* A finite non-negative number, or the unknown value.
InPriceDomain(p) == p = Null \/ (p.k = "num" /\ p.v >= 0)

\* C19: every PriceResult returned by fetchAllPrices has a priceUsd that is
\* the unknown value or a finite non-negative number, whatever the upstream
\* providers returned.
C19_PriceDomain ==
  pc = "done" => \A i \in 1..Len(results) : InPriceDomain(results[i].priceUsd)

(***************************************************************************)
(* storage.ts called directly: cacheGet, cacheSet and storeResults under   *)
(* every configuration of the cache.  probe holds the configuration and,   *)
(* for the last call, its arguments, what it came to and the contents of   *)
(* the store before it.                                                    *)
(***************************************************************************)
\* Faulty variant: the token is not looked at.
enabledUrlOnly(redisUrl, redisToken) == redisUrl # ""

\* !!(CFG.cache.redisUrl && CFG.cache.redisToken)
enabled(redisUrl, redisToken) == redisUrl # "" /\ redisToken # ""

RedisUrlPool == {"", "https://redis"}
RedisTokenPool == {"", "token"}

\* The values written and stored: a priced result, an unknown one, the same
\* address in another letter case, a NaN price.
StoredPool ==
  { toPriceResult("eth", "0xAA", Num(5), "dexscreener", 1),
    toPriceResult("eth", "0xaa", Null, NullSource, 2),
    toPriceResult("bsc", "0xaa", NaN, "cmc", 1) }

StorageKeys == {cacheKey(r.chain, r.address) : r \in StoredPool}

\* The contents of the store when the first call is made.
StoredAtStart ==
  { EmptyMap,
    [key \in {cacheKey("eth", "0xaa")} |-> toPriceResult("eth", "0xAA", Num(5), "dexscreener", 1)],
    [key \in {cacheKey("eth", "0xaa")} |-> Malformed] }

ResultLists == UNION {[1..n -> StoredPool] : n \in 0..MaxTokens}

InitStorage ==
  /\ tokens = <<>>
  /\ now = 0
  /\ run = 0
  /\ pc = "storage"
  /\ ci = 1
  /\ results = <<>>
  /\ needFetchIdx = <<>>
  /\ hits = {}
  /\ single = Undefined
  /\ addresses = <<>> /\ dexMap = EmptyMap
  /\ ids = <<>> /\ idxForId = <<>> /\ geckoMap = EmptyMap
  /\ slugs = <<>> /\ idxForSlug = <<>> /\ cmcMap = EmptyMap
  /\ caught = {}
  /\ dex = DexIdle /\ gecko = GeckoIdle /\ cmc = CmcIdle
  /\ cache \in StoredAtStart
  /\ \E redisUrl \in RedisUrlPool, redisToken \in RedisTokenPool :
       /\ cacheEnabled = enabled(redisUrl, redisToken)
       /\ probe = [fn |-> "none", redisUrl |-> redisUrl, redisToken |-> redisToken,
                   raised |-> FALSE, sent |-> FALSE, value |-> Undefined, before |-> cache]

\* cacheGet(key) is called.
CallCacheGet ==
  /\ pc = "storage"
  /\ \E key \in StorageKeys : \E r \in cacheGet(key) :
       probe' = [probe EXCEPT !.fn = "cacheGet", !.raised = r.raised, !.sent = r.sent,
                              !.value = r.value, !.before = cache]
  /\ UNCHANGED <<pipeRest, dex, gecko, cmc>>

\* cacheSet(cacheKey(value.chain, value.address), value) is called.
CallCacheSet ==
  /\ pc = "storage"
  /\ \E value \in StoredPool, outcome \in StoreOutcomes :
       LET r == cacheSetOf(outcome)
           key == cacheKey(value.chain, value.address)
       IN  /\ probe' = [probe EXCEPT !.fn = "cacheSet", !.raised = r.raised, !.sent = r.sent,
                                     !.value = Undefined, !.before = cache]
           /\ cache' = IF r.value
                       THEN [k \in DOMAIN cache \cup {key} |->
                               IF k = key THEN jsonRoundTrip(value) ELSE cache[k]]
                       ELSE cache
  /\ UNCHANGED <<tokens, cacheEnabled, now, run, pc, ci, results, needFetchIdx, hits, single,
                 addresses, dexMap, ids, idxForId, geckoMap, slugs, idxForSlug, cmcMap,
                 caught, dex, gecko, cmc>>

\* storeResults(res) is called.
CallStoreResults ==
  /\ pc = "storage"
  /\ \E res \in ResultLists : \E e \in StoreEffects(res) :
       /\ probe' = [probe EXCEPT !.fn = "storeResults", !.raised = e.raised, !.sent = e.sent,
                                 !.value = Undefined, !.before = cache]
       /\ results' = res
       /\ cache' = e.cache
  /\ UNCHANGED <<tokens, cacheEnabled, now, run, pc, ci, needFetchIdx, hits, single,
                 addresses, dexMap, ids, idxForId, geckoMap, slugs, idxForSlug, cmcMap,
                 caught, dex, gecko, cmc>>

NextStorage ==
  \/ CallCacheGet
  \/ CallCacheSet
  \/ CallStoreResults

SpecStorage == InitStorage /\ [][NextStorage]_vars

\* C21: when the cache URL or the token is not configured, a call of cacheGet
\* returns absent, a call of cacheSet or storeResults leaves the store as it
\* was, and none of them sends a request or raises.
C21_UnconfiguredCacheNoOp ==
  (probe.fn \in {"cacheGet", "cacheSet", "storeResults"}
     /\ (probe.redisUrl = "" \/ probe.redisToken = "")) =>
    /\ ~probe.sent
    /\ ~probe.raised
    /\ probe.value = Undefined
    /\ cache = probe.before

\* storeResults was called with two results while the URL was configured and
\* the token was not, over a store that holds an entry.
C21_Witness ==
  /\ probe.fn = "storeResults"
  /\ probe.redisUrl # ""
  /\ probe.redisToken = ""
  /\ Len(results) = 2
  /\ DOMAIN cache # {}
  /\ cache = probe.before

\* The store holds an entry under token i's key.
Held(i) == cacheKey(tokens[i].chain, tokens[i].contract_address) \in DOMAIN cache

\* C22: no failure of the cache makes a run or the store after it fail; a
\* token whose read returned nothing, the store holding an entry for it or
\* not, is pending, and when the run returns its slot has been resolved in
\* this run, by a provider or as unknown; a storeResults whose writes fail
\* returns normally.
C22_CacheFailuresSwallowed ==
  /\ [](pc # "rejected")
  /\ [](pc \in {"cache", "dex", "gecko", "cmc", "fill"} =>
          \A i \in 1..(ci - 1) : i \notin hits => i \in Range(needFetchIdx))
  /\ [](pc = "done" =>
          \A i \in 1..N :
            i \notin hits =>
              /\ i \in Range(needFetchIdx)
              /\ Filled(results[i])
              /\ results[i] # Malformed
              /\ results[i].at = now
              /\ results[i].source \in {"dexscreener", "coingecko", "cmc", NullSource})
  /\ [][(pc = "done" /\ pc' # "done") => pc' = "idle"]_vars

\* A run returned in which the read of an unparseable entry and the failed
\* read of a good entry were both treated as misses and priced by providers.
C22_Witness ==
  /\ pc = "done"
  /\ cacheEnabled
  /\ N = 2
  /\ hits = {}
  /\ Held(1) /\ cache[cacheKey(tokens[1].chain, tokens[1].contract_address)] = Malformed
  /\ Held(2) /\ cache[cacheKey(tokens[2].chain, tokens[2].contract_address)] # Malformed
  /\ results[1].priceUsd # Null
  /\ results[2].priceUsd # Null

\* C23: no step of a run of fetchAllPrices and no call of fetchPriceForToken
\* changes the store; the store gains or changes an entry only in the
\* storeResults that follows a run.
C23_PipelineNeverWrites ==
  [][/\ (pc \in {"cache", "dex", "gecko", "cmc", "fill"} \/ pc' = "cache") => cache' = cache
     /\ single' # single => cache' = cache
     /\ (\E key \in DOMAIN cache' : key \notin DOMAIN cache \/ cache'[key] # cache[key])
          => (pc = "done" /\ pc' = "idle")
    ]_vars

\* A run over a configured cache returned a freshly priced token whose key
\* the store does not hold.
C23_Witness ==
  /\ pc = "done"
  /\ cacheEnabled
  /\ \E i \in Range(needFetchIdx) : results[i].priceUsd # Null /\ ~Held(i)

\* The entry the store holds under token i's key.
Cached(i) == cache[cacheKey(tokens[i].chain, tokens[i].contract_address)]

\* C24: during and at the end of a run, the slot of every token whose cache
\* read returned a result is the stored record itself, with its price, source
\* and `at` (the time of the run that resolved it, earlier than this run).
C24_CacheHitUnchanged ==
  pc \in {"cache", "dex", "gecko", "cmc", "fill", "done"} =>
    \A i \in hits :
      /\ Held(i)
      /\ results[i] = Cached(i)
      /\ results[i].at < now

\* A run returned one token from the cache, priced by a provider in an
\* earlier run, and one token resolved in this run.
C24_Witness ==
  /\ pc = "done"
  /\ \E i \in hits, j \in Range(needFetchIdx) :
       /\ results[i].source = "coingecko"
       /\ results[i].at < now
       /\ results[j].at = now

\* The adapter call of the frame has returned or failed.
Completed(frame) == frame.pc = "returned" \/ frame.pc = "rejected"

\* The adapter of the frame has been invoked in the current run.
Invoked(frame) == frame.pc # "idle"

\* C25: in a run the CoinGecko adapter is invoked only once the Dexscreener
\* call has completed, and the CMC adapter only once the Dexscreener call
\* and, if there was one, the CoinGecko call have completed; a call that has
\* completed is not made again in the run, and the state of a call changes
\* only by the progress of that one call until the next run starts.
C25_SequentialPassesNoRetry ==
  /\ [](Invoked(gecko) => Completed(dex))
  /\ [](Invoked(cmc) => (Completed(dex) /\ (Invoked(gecko) => Completed(gecko))))
  /\ [](pc \in {"gecko", "cmc", "fill"} => Completed(dex))
  /\ [](pc \in {"cmc", "fill", "done"} =>
          ((Invoked(dex) => Completed(dex)) /\ (Invoked(gecko) => Completed(gecko))))
  /\ [](pc \in {"fill", "done"} => (Invoked(cmc) => Completed(cmc)))
  /\ [][(Completed(dex) /\ dex' # dex) => (dex' = DexIdle /\ run' = run + 1)]_vars
  /\ [][(Completed(gecko) /\ gecko' # gecko) => (gecko' = GeckoIdle /\ run' = run + 1)]_vars
  /\ [][(Completed(cmc) /\ cmc' # cmc) => (cmc' = CmcIdle /\ run' = run + 1)]_vars
  /\ [][(Invoked(dex) /\ ~Completed(dex)) =>
          (gecko' = gecko /\ cmc' = cmc /\ dex'.uniq = dex.uniq)]_vars
  /\ [][(Invoked(gecko) /\ ~Completed(gecko)) =>
          (dex' = dex /\ cmc' = cmc /\ gecko'.uniq = gecko.uniq)]_vars
  /\ [][(Invoked(cmc) /\ ~Completed(cmc)) =>
          (dex' = dex /\ gecko' = gecko /\ cmc'.uniq = cmc.uniq)]_vars

\* A run returned after the Dexscreener call failed and the CoinGecko and CMC
\* calls, made after it, returned.
C25_Witness ==
  /\ pc = "done"
  /\ dex.pc = "rejected"
  /\ gecko.pc = "returned"
  /\ cmc.pc = "returned"

\* The concurrency cap of the probed CMC call: the option clamped to 1..10,
\* 4 when there is none.
CmcCapOf ==
  LET c == OptOr(probe.opts, "concurrency", 4)
  IN  IF c < 1 THEN 1 ELSE IF c > 10 THEN 10 ELSE c

\* C26: during fetchCmcBatchBySlugs never more lookups are in flight than the
\* concurrency cap, and lookups are started only when none is in flight, a
\* group at a time: the next slugs of the list, as many as the cap allows.
C26_CmcBoundedConcurrency ==
  /\ [](probe.fn = "fetchCmcBatchBySlugs" =>
          (Cardinality(cmc.inflight) <= CmcCapOf /\ Cardinality(cmc.inflight) <= 10))
  /\ [][(probe.fn = "fetchCmcBatchBySlugs" /\ cmc'.lookups # cmc.lookups) =>
          /\ cmc.inflight = {}
          /\ DOMAIN cmc.settled = {}
          /\ Len(cmc'.lookups) <= Len(cmc.lookups) + CmcCapOf
          /\ cmc'.inflight =
               {cmc'.lookups[j] : j \in (Len(cmc.lookups) + 1)..Len(cmc'.lookups)}
          /\ \A j \in 1..Len(cmc.lookups) : cmc.out[cmc.lookups[j]] = cmc.got[cmc.lookups[j]]
        ]_vars

\* Eleven slugs with concurrency 300: ten lookups are in flight, the eleventh
\* has not started.
C26_Witness ==
  /\ probe.fn = "fetchCmcBatchBySlugs"
  /\ probe.n = 11
  /\ OptOr(probe.opts, "concurrency", 4) = 300
  /\ Cardinality(cmc.inflight) = 10
  /\ Len(cmc.lookups) = 10


(***************************************************************************)
(* server.ts: runOnce repeated over time, the store keeping the time to    *)
(* live of SET ... EX ttl.                                                  *)
(***************************************************************************)
\* CFG.cache.ttlSeconds, counted in ticks of the clock.
TtlTicks == 2

\* The clock stops here.
MaxClock == 5

RunTokenLists ==
  { <<Row("eth", "0xAA", NullStr, NullStr)>>,
    <<Row("eth", "0xAA", NullStr, NullStr), Row("bsc", "0xbb", NullStr, NullStr)>> }

\* What the providers make of a token the cache did not answer: a price and
\* its source, or nothing.
Resolved == {<<Num(5), "dexscreener">>, <<Null, NullSource>>}

InitRuns ==
  /\ tokens \in RunTokenLists
  /\ cacheEnabled \in BOOLEAN
  /\ cache = EmptyMap
  /\ probe = [fn |-> "runOnce", expires |-> EmptyMap]
  /\ now = 0
  /\ run = 0
  /\ pc = "idle"
  /\ ci = 1
  /\ results = <<>>
  /\ needFetchIdx = <<>>
  /\ hits = {}
  /\ single = Undefined
  /\ addresses = <<>> /\ dexMap = EmptyMap
  /\ ids = <<>> /\ idxForId = <<>> /\ geckoMap = EmptyMap
  /\ slugs = <<>> /\ idxForSlug = <<>> /\ cmcMap = EmptyMap
  /\ caught = {}
  /\ dex = DexIdle /\ gecko = GeckoIdle /\ cmc = CmcIdle

\* What cacheGet returns for token i, for given outcomes of the GET requests.
CacheAnswer(reads, i) ==
  cacheGetOf(cacheKey(tokens[i].chain, tokens[i].contract_address), reads[i])

\* The indices the cache pass of fetchAllPrices fills (fetchPrice.ts:56-64).
HitsOf(reads) == {i \in 1..N : Filled(CacheAnswer(reads, i).value)}

\* What fetchAllPrices(tokens) returns: the cache pass puts what cacheGet
\* returns into the slot; a slot the cache did not fill gets a PriceResult
\* made in this run, stamped now.
Fetched(reads, fresh) ==
  [i \in 1..N |->
     IF i \in HitsOf(reads) THEN alreadyNormalized(CacheAnswer(reads, i).value, now)
     ELSE toPriceResult(tokens[i].chain, tokens[i].contract_address,
                        fresh[i][1], fresh[i][2], now)]

\* runOnce, line 89: prices = await fetchAllPrices(tokens).
RunOnceFetches ==
  /\ pc = "idle"
  /\ \E reads \in [1..N -> StoreOutcomes], fresh \in [1..N -> Resolved] :
       /\ results' = Fetched(reads, fresh)
       /\ hits' = HitsOf(reads)
       /\ pc' = IF \E i \in 1..N : CacheAnswer(reads, i).raised THEN "rejected" ELSE "done"
  /\ UNCHANGED <<probe, tokens, cacheEnabled, cache, now, run, ci, needFetchIdx, single,
                 addresses, dexMap, ids, idxForId, geckoMap, slugs, idxForSlug, cmcMap,
                 caught, dex, gecko, cmc>>

\* runOnce, line 90: await storeResults(prices). Every result is SET with
\* EX ttl, the ones read from the cache too: a SET that lands gives its key a
\* full time to live.
RunOnceStores ==
  /\ pc = "done"
  /\ \E e \in StoreEffects(results) :
       /\ pc' = IF e.raised THEN "rejected" ELSE "idle"
       /\ cache' = e.cache
       /\ probe' = [probe EXCEPT !.expires =
                      [key \in DOMAIN e.cache |->
                         IF key \in e.written THEN now + TtlTicks ELSE probe.expires[key]]]
  /\ UNCHANGED <<tokens, cacheEnabled, now, run, ci, results, needFetchIdx, hits, single,
                 addresses, dexMap, ids, idxForId, geckoMap, slugs, idxForSlug, cmcMap,
                 caught, dex, gecko, cmc>>

\* Time passes between two runs; the store drops the entries whose time to
\* live is over.
ClockTicks ==
  /\ pc = "idle"
  /\ now < MaxClock
  /\ now' = now + 1
  /\ LET alive == {key \in DOMAIN cache : probe.expires[key] > now + 1}
     IN  /\ cache' = [key \in alive |-> cache[key]]
         /\ probe' = [probe EXCEPT !.expires = [key \in alive |-> probe.expires[key]]]
  /\ UNCHANGED <<tokens, cacheEnabled, run, pc, ci, results, needFetchIdx, hits, single,
                 addresses, dexMap, ids, idxForId, geckoMap, slugs, idxForSlug, cmcMap,
                 caught, dex, gecko, cmc>>

NextRuns ==
  \/ RunOnceFetches
  \/ RunOnceStores
  \/ ClockTicks

SpecRuns == InitRuns /\ [][NextRuns]_vars

\* C27: when runs repeat, the PriceResult stored for a token is superseded by
\* a newer one; no record keeps being served from the cache for longer than
\* the time to live it was stored with.
C27_ServedWithinTtl ==
  pc = "done" => \A i \in hits : now - results[i].at < TtlTicks


(***************************************************************************)
(* server.ts: the request handlers of /run, /prices and /stats. Node runs  *)
(* one handler at a time up to its next await; handlers of different       *)
(* requests interleave at their awaits.                                    *)
(***************************************************************************)
\* The requests the model lets be in the server at once.
MaxHandlers == 2

Handlers == 1..MaxHandlers

\* The requests to the trigger surface: tokenOk is token === RUN_TOKEN,
\* async is ?async=1, force is ?refresh=1.
Requests ==
  {[path |-> "/run", async |-> a, force |-> FALSE, tokenOk |-> t] : a, t \in BOOLEAN}
  \cup {[path |-> p, async |-> FALSE, force |-> f, tokenOk |-> TRUE] :
          p \in {"/prices", "/stats"}, f \in BOOLEAN}

NoRequest == [path |-> "", async |-> FALSE, force |-> FALSE, tokenOk |-> TRUE]

ServerTokenLists == {<<>>, <<Row("eth", "0xAA", NullStr, NullStr)>>}

\* A handler: its position, its request, the status it has answered with
\* ("" before it answers), the cached prices it read, the prices it holds,
\* whether it has called fetchAllPrices and storeResults.
NoHandler ==
  [pc |-> "none", req |-> NoRequest, status |-> "", cached |-> <<>>, prices |-> <<>>,
   ran |-> FALSE, stored |-> FALSE]

InitServer ==
  /\ tokens \in ServerTokenLists
  /\ cacheEnabled \in BOOLEAN
  /\ cache = EmptyMap
  /\ \E runToken \in BOOLEAN :
       probe = [fn |-> "server", runToken |-> runToken,
                reqs |-> [h \in Handlers |-> NoHandler]]
  /\ now = 0
  /\ run = 0
  /\ pc = "server"
  /\ ci = 1
  /\ results = <<>>
  /\ needFetchIdx = <<>>
  /\ hits = {}
  /\ single = Undefined
  /\ addresses = <<>> /\ dexMap = EmptyMap
  /\ ids = <<>> /\ idxForId = <<>> /\ geckoMap = EmptyMap
  /\ slugs = <<>> /\ idxForSlug = <<>> /\ cmcMap = EmptyMap
  /\ caught = {}
  /\ dex = DexIdle /\ gecko = GeckoIdle /\ cmc = CmcIdle

\* Handler h becomes hd.
Becomes(h, hd) == probe' = [probe EXCEPT !.reqs[h] = hd]

\* The handler ends: it answers with the status given, unless it has
\* answered already (the run queued by async=1 answers nothing more).
Ends(hd, status) ==
  [hd EXCEPT !.pc = "responded", !.status = IF hd.status = "" THEN status ELSE hd.status]

\* Faulty variant: the token is not compared.
UnauthorizedNever(runToken, r) == FALSE

\* process.env.RUN_TOKEN && token !== process.env.RUN_TOKEN (line 121).
Unauthorized(runToken, r) == runToken /\ ~r.tokenOk

\* A request arrives (lines 115-157, 195-197, 224-225): /run answers 401
\* when RUN_TOKEN is set and the token differs; with async=1 it queues the
\* run by setImmediate and answers at once; the others go on to read the
\* token list.
RequestArrives ==
  \E h \in Handlers :
    /\ pc = "server"
    /\ probe.reqs[h].pc = "none"
    /\ \E r \in Requests :
         LET hd == [probe.reqs[h] EXCEPT !.req = r]
         IN  Becomes(h, IF r.path = "/run" /\ Unauthorized(probe.runToken, r) THEN Ends(hd, "401")
                        ELSE IF r.path = "/run" /\ r.async
                             THEN [hd EXCEPT !.pc = "queued", !.status = "200"]
                        ELSE [hd EXCEPT !.pc = "readTokens"])
    /\ UNCHANGED <<pipeRest, dex, gecko, cmc>>

\* The callback of setImmediate runs: runOnce is called (lines 138-140).
ImmediateFires ==
  \E h \in Handlers :
    /\ pc = "server"
    /\ probe.reqs[h].pc = "queued"
    /\ Becomes(h, [probe.reqs[h] EXCEPT !.pc = "readTokens"])
    /\ UNCHANGED <<pipeRest, dex, gecko, cmc>>

\* Where a handler goes once the token list is read: runOnce returns [] on
\* an empty list and calls fetchAllPrices otherwise (lines 87-89); /prices
\* answers on an empty list (lines 199-202), /stats does not test it.
AfterTokens(path, toks) ==
  IF path = "/run" THEN (IF toks = <<>> THEN "responded" ELSE "running")
  ELSE IF path = "/prices" /\ toks = <<>> THEN "responded"
  ELSE "readCache"

\* await readTokensFromAppsScript() settles; a read that throws ends the
\* handler in its catch (line 290, or line 146 for the queued run).
TokensRead ==
  \E h \in Handlers :
    /\ pc = "server"
    /\ probe.reqs[h].pc = "readTokens"
    /\ \E threw \in BOOLEAN :
         LET hd == probe.reqs[h]
             next == AfterTokens(hd.req.path, tokens)
         IN  Becomes(h, IF threw THEN Ends(hd, "500")
                        ELSE IF next = "responded" THEN Ends(hd, "200")
                        ELSE [hd EXCEPT !.pc = next, !.ran = (next = "running")])
    /\ UNCHANGED <<pipeRest, dex, gecko, cmc>>

\* Faulty variant: the cache is served whenever it is configured.
FreshUnlessConfigured(force, redisEnabled, prices) == ~redisEnabled

\* force || !redisEnabled || prices.length === 0 (lines 212 and 233).
Fresh(force, redisEnabled, prices) == force \/ ~redisEnabled \/ prices = <<>>

\* /prices and /stats, lines 204-215 and 226-236: the cached prices are
\* read; fetchAllPrices is called if refresh=1, or the cache is not
\* configured, or nothing was read; else the cached prices are the answer.
CachedRead ==
  \E h \in Handlers :
    /\ pc = "server"
    /\ probe.reqs[h].pc = "readCache"
    /\ \E reads \in [1..N -> StoreOutcomes] :
         LET cached == [i \in 1..N |-> CacheAnswer(reads, i).value]
             hd == [probe.reqs[h] EXCEPT !.cached = SelectSeq(cached, Filled),
                                         !.prices = SelectSeq(cached, Filled)]
         IN  Becomes(h, IF Fresh(hd.req.force, cacheEnabled, hd.prices)
                        THEN [hd EXCEPT !.pc = "running", !.ran = TRUE]
                        ELSE Ends(hd, "200"))
    /\ UNCHANGED <<pipeRest, dex, gecko, cmc>>

\* The fetchAllPrices(tokens) of handler h settles; runOnce goes on to
\* storeResults (line 90), /prices and /stats do if the cache is configured
\* (lines 214 and 235).
RunSettles ==
  \E h \in Handlers :
    /\ pc = "server"
    /\ probe.reqs[h].pc = "running"
    /\ \E reads \in [1..N -> StoreOutcomes], fresh \in [1..N -> Resolved] :
         LET hd == [probe.reqs[h] EXCEPT !.prices = Fetched(reads, fresh)]
         IN  Becomes(h, IF hd.req.path = "/run" \/ cacheEnabled
                        THEN [hd EXCEPT !.pc = "storing", !.stored = TRUE]
                        ELSE Ends(hd, "200"))
    /\ UNCHANGED <<pipeRest, dex, gecko, cmc>>

\* The storeResults(prices) of handler h settles.
StoreSettles ==
  \E h \in Handlers :
    /\ pc = "server"
    /\ probe.reqs[h].pc = "storing"
    /\ \E e \in StoreEffects(probe.reqs[h].prices) :
         /\ cache' = e.cache
         /\ Becomes(h, Ends(probe.reqs[h], "200"))
    /\ UNCHANGED <<tokens, cacheEnabled, now, run, pc, ci, results, needFetchIdx, hits, single,
                   addresses, dexMap, ids, idxForId, geckoMap, slugs, idxForSlug, cmcMap,
                   caught, dex, gecko, cmc>>

NextServer ==
  \/ RequestArrives
  \/ ImmediateFires
  \/ TokensRead
  \/ CachedRead
  \/ RunSettles
  \/ StoreSettles

SpecServer == InitServer /\ [][NextServer]_vars

\* The handlers whose fetchAllPrices has been called and has not settled.
RunsInProgress == {h \in Handlers : probe.reqs[h].pc = "running"}

\* C28: for any sequence of requests to /run, /prices and /stats, at no time
\* are two executions of fetchAllPrices in progress at once.
C28_RunsSerial == Cardinality(RunsInProgress) <= 1


(***************************************************************************)
(* index.ts and server.ts: normalizeToken and the reading of the token     *)
(* list, up to the call of fetchAllPrices by runOnce.                      *)
(***************************************************************************)
\* A string is truthy when it is there and not empty.
TruthyString(x) == x # NullStr /\ x # ""

\* String(a || b || "")
StringOfEither(a, b) == IF TruthyString(a) THEN a ELSE KeyString(b)

\* x ? String(x).toLowerCase() : null
LowerOrNull(x) == IF TruthyString(x) THEN toLowerCase(x) ELSE NullStr

\* Stands for the null that normalizeToken returns for a row it drops.
Dropped == [dropped |-> TRUE]

\* Faulty variant: the test is made on the strings as given, not trimmed.
normalizeTokenUntrimmed(x) ==
  LET chain == StringOfEither(x.chain, x.cmcChain)
      address == StringOfEither(x.contract, x.address)
  IN  IF chain = "" \/ address = "" THEN Dropped
      ELSE Row(toLowerCase(Trim(chain)), Trim(address),
               LowerOrNull(x.geckoId), LowerOrNull(x.cmcSlug))

\* server.ts, normalizeToken: the chain trimmed and lower-cased, the address
\* trimmed; null when either is empty.
normalizeToken(x) ==
  LET chain == toLowerCase(Trim(StringOfEither(x.chain, x.cmcChain)))
      address == Trim(StringOfEither(x.contract, x.address))
  IN  IF chain = "" \/ address = "" THEN Dropped
      ELSE Row(chain, address, LowerOrNull(x.geckoId), LowerOrNull(x.cmcSlug))

\* index.ts, normalizeToken: the address is lower-cased too.
normalizeTokenIndex(x) ==
  LET chain == toLowerCase(Trim(StringOfEither(x.chain, x.cmcChain)))
      address == toLowerCase(Trim(StringOfEither(x.contract, x.address)))
  IN  IF chain = "" \/ address = "" THEN Dropped
      ELSE Row(chain, address, LowerOrNull(x.geckoId), LowerOrNull(x.cmcSlug))

\* arr.map(normalizeToken).filter(Boolean), in the entry point named.
readTokens(entry, arr) ==
  LET mapped == [j \in 1..Len(arr) |->
                   IF entry = "server" THEN normalizeToken(arr[j])
                   ELSE normalizeTokenIndex(arr[j])]
      kept(t) == t # Dropped
  IN  SelectSeq(mapped, kept)

\* The rows the source can answer with: a chain missing, empty, blank, in
\* upper case, padded; a second chain column; the address under either key,
\* missing, empty, blank, padded.
SourceRows ==
  [chain : {NullStr, "", " ", "ETH", " Bsc "},
   cmcChain : {NullStr, "Ethereum"},
   contract : {NullStr, "", " ", "0xAA", " 0xBB "},
   address : {NullStr, "0xaa"},
   geckoId : {"Pepe"},
   cmcSlug : {NullStr}]

\* The longest answer of the source.
MaxRows == 2

SourceAnswers == UNION {[1..n -> SourceRows] : n \in 0..MaxRows}

InitSource ==
  /\ \E entry \in {"index", "server"}, arr \in SourceAnswers :
       probe = [fn |-> "runOnce", entry |-> entry, arr |-> arr, at |-> "called"]
  /\ tokens = <<>>
  /\ cacheEnabled = FALSE
  /\ cache = EmptyMap
  /\ now = 0
  /\ run = 0
  /\ pc = "source"
  /\ ci = 1
  /\ results = <<>>
  /\ needFetchIdx = <<>>
  /\ hits = {}
  /\ single = Undefined
  /\ addresses = <<>> /\ dexMap = EmptyMap
  /\ ids = <<>> /\ idxForId = <<>> /\ geckoMap = EmptyMap
  /\ slugs = <<>> /\ idxForSlug = <<>> /\ cmcMap = EmptyMap
  /\ caught = {}
  /\ dex = DexIdle /\ gecko = GeckoIdle /\ cmc = CmcIdle

\* runOnce: tokens = await readTokensFromAppsScript() (server.ts:87), or
\* getTokensFromAppsScript(url) (index.ts:44).
TokensAreRead ==
  /\ pc = "source"
  /\ probe.at = "called"
  /\ tokens' = readTokens(probe.entry, probe.arr)
  /\ probe' = [probe EXCEPT !.at = "read"]
  /\ UNCHANGED <<cacheEnabled, cache, now, run, pc, ci, results, needFetchIdx, hits, single,
                 addresses, dexMap, ids, idxForId, geckoMap, slugs, idxForSlug, cmcMap,
                 caught, dex, gecko, cmc>>

\* runOnce: if (!tokens.length) return.
ReturnsOnNoTokens ==
  /\ pc = "source"
  /\ probe.at = "read"
  /\ tokens = <<>>
  /\ probe' = [probe EXCEPT !.at = "returned"]
  /\ UNCHANGED <<pipeRest, dex, gecko, cmc>>

\* runOnce: fetchAllPrices(tokens) is called.
CallsFetchAllPrices ==
  /\ pc = "source"
  /\ probe.at = "read"
  /\ tokens # <<>>
  /\ probe' = [probe EXCEPT !.at = "fetchAllPrices"]
  /\ UNCHANGED <<pipeRest, dex, gecko, cmc>>

NextSource ==
  \/ TokensAreRead
  \/ ReturnsOnNoTokens
  \/ CallsFetchAllPrices

SpecSource == InitSource /\ [][NextSource]_vars

\* The rows of the answer whose chain, or whose address, is empty once trimmed.
EmptyOnceTrimmed(x) ==
  \/ Trim(StringOfEither(x.chain, x.cmcChain)) = ""
  \/ Trim(StringOfEither(x.contract, x.address)) = ""

\* C29: every source row whose chain or address is empty after trimming is
\* dropped, and every token that runOnce passes to fetchAllPrices has a
\* non-empty lower-case chain and a non-empty address.
C29_MalformedRowsDropped ==
  /\ probe.at # "called" =>
       Len(tokens) <= Cardinality({j \in 1..Len(probe.arr) : ~EmptyOnceTrimmed(probe.arr[j])})
  /\ probe.at = "fetchAllPrices" =>
       \A i \in 1..Len(tokens) :
         /\ tokens[i].chain # ""
         /\ Trim(tokens[i].chain) # ""
         /\ toLowerCase(tokens[i].chain) = tokens[i].chain
         /\ tokens[i].contract_address # ""
         /\ Trim(tokens[i].contract_address) # ""

\* fetchAllPrices is called after a row with a blank chain and a row with a
\* blank address were dropped and a row in upper case was kept.
C29_Witness ==
  /\ probe.fn = "runOnce" /\ pc = "source"
  /\ probe.at = "fetchAllPrices"
  /\ Len(probe.arr) = 2
  /\ Len(tokens) = 1
  /\ EmptyOnceTrimmed(probe.arr[1])
  /\ probe.arr[1].chain = " "
  /\ probe.arr[2].chain = "ETH"
  /\ tokens[1].chain = "eth"


(***************************************************************************)
(* server.ts: summarize.                                                   *)
(***************************************************************************)
\* Faulty variant: withPrice counts the truthy prices, the sources are
\* counted for the prices that are not null.
summarizeTruthy(prices) ==
  LET priced == {i \in 1..Len(prices) : Filled(prices[i]) /\ NotNullish(prices[i].priceUsd)}
      truthy == {i \in priced : prices[i].priceUsd.k = "num" /\ prices[i].priceUsd.v # 0}
      from(source) == Cardinality({i \in priced : prices[i].source = source})
  IN  [totals |-> [total |-> Len(prices), withPrice |-> Cardinality(truthy),
                   nulls |-> Len(prices) - Cardinality(truthy)],
       bySource |-> [dexscreener |-> from("dexscreener"), coingecko |-> from("coingecko"),
                     cmc |-> from("cmc")]]

\* summarize(prices): withPrice counts the entries with p && p.priceUsd !=
\* null, and among those the three provider names are counted; nulls is the
\* length less withPrice.
summarize(prices) ==
  LET priced == {i \in 1..Len(prices) : Filled(prices[i]) /\ NotNullish(prices[i].priceUsd)}
      from(source) == Cardinality({i \in priced : prices[i].source = source})
  IN  [totals |-> [total |-> Len(prices), withPrice |-> Cardinality(priced),
                   nulls |-> Len(prices) - Cardinality(priced)],
       bySource |-> [dexscreener |-> from("dexscreener"), coingecko |-> from("coingecko"),
                     cmc |-> from("cmc")]]

\* C30: for the list of PriceResults a run returns, the summary has total
\* equal to the length of the list, total = withPrice + nulls, and the three
\* counts by source add up to withPrice.
C30_SummaryArithmetic ==
  (run >= 1 /\ pc \in {"done", "idle"}) =>
    LET s == summarize(results)
    IN  /\ s.totals.total = Len(results)
        /\ s.totals.total = s.totals.withPrice + s.totals.nulls
        /\ s.bySource.dexscreener + s.bySource.coingecko + s.bySource.cmc = s.totals.withPrice

\* A run has returned two results, one priced by a provider and one unknown.
C30_Witness ==
  /\ pc = "done"
  /\ Len(results) = 2
  /\ summarize(results).totals.withPrice = 1
  /\ summarize(results).totals.nulls = 1
  /\ summarize(results).bySource.coingecko = 1


(***************************************************************************)
(* The adapters' network calls attempt by attempt: pRetry(fn, {retries})   *)
(* calls fn again after a failure until it has failed retries + 1 times,   *)
(* and then rejects with the last error.                                   *)
(***************************************************************************)
\* opts?.retries ?? 2
DefaultRetries == 2

\* The retries written into fetchDexscreenerPrice and fetchCmcPriceBySlug.
DexSingleRetries == 2
CmcQuoteRetries == 2
CmcHtmlRetries == 1
CmcIdRetries == 2

\* The largest retries option explored.
MaxRetries == 3

RetryOpts == {[delayMs |-> 0]} \cup {[retries |-> r] : r \in 0..MaxRetries}

\* The URLs an adapter call requests.
NetworkCalls ==
  {"dexscreener batch", "dexscreener single", "coingecko batch",
   "cmc quote by slug", "cmc html", "cmc quote by id"}

\* Where each adapter call starts: the sub-batch GET of Dexscreener, one
\* lookup of its per-address fallback, the batch GET of CoinGecko, one slug
\* lookup of the CMC batch.
FirstCall ==
  [batch |-> "dexscreener batch", fallback |-> "dexscreener single",
   gecko |-> "coingecko batch", cmc |-> "cmc quote by slug"]

\* The retries of the pRetry that wraps the request directly.
RetriesAround(call, retries) ==
  CASE call = "dexscreener batch" -> retries
    [] call = "coingecko batch" -> retries
    [] call = "dexscreener single" -> DexSingleRetries
    [] call = "cmc quote by slug" -> CmcQuoteRetries
    [] call = "cmc html" -> CmcHtmlRetries
    [] call = "cmc quote by id" -> CmcIdRetries

InitRetry ==
  /\ \E entry \in DOMAIN FirstCall, opts \in RetryOpts :
       probe = [fn |-> "pRetry", entry |-> entry,
                retries |-> OptOr(opts, "retries", DefaultRetries),
                call |-> FirstCall[entry], failed |-> 0, outerFailed |-> 0,
                attempts |-> [c \in NetworkCalls |-> 0], at |-> "calling"]
  /\ tokens = <<>>
  /\ cacheEnabled = FALSE
  /\ cache = EmptyMap
  /\ now = 0
  /\ run = 0
  /\ pc = "retry"
  /\ ci = 1
  /\ results = <<>>
  /\ needFetchIdx = <<>>
  /\ hits = {}
  /\ single = Undefined
  /\ addresses = <<>> /\ dexMap = EmptyMap
  /\ ids = <<>> /\ idxForId = <<>> /\ geckoMap = EmptyMap
  /\ slugs = <<>> /\ idxForSlug = <<>> /\ cmcMap = EmptyMap
  /\ caught = {}
  /\ dex = DexIdle /\ gecko = GeckoIdle /\ cmc = CmcIdle

\* The request is sent once more.
Attempted(p) == [p EXCEPT !.attempts[p.call] = p.attempts[p.call] + 1]

\* The pRetry around the request has given up and rejects. The Dexscreener
\* sub-batch has no catch (dexscreener.ts:134-140); CoinGecko has .catch(()
\* => null) (coingecko.ts:50); fetchDexscreenerPrice rejects into the pRetry
\* of the fallback (dexscreener.ts:165), which calls it again until it has
\* failed retries + 1 times and is then caught (line 167); in
\* fetchCmcPriceBySlug the first try block is left for the second, the second
\* for return null (cmc.ts:172, 187).
GivenUp(p) ==
  CASE p.call = "dexscreener batch" -> [p EXCEPT !.at = "rejected"]
    [] p.call = "coingecko batch" -> [p EXCEPT !.at = "returned"]
    [] p.call = "dexscreener single" ->
         IF p.outerFailed < p.retries
         THEN [p EXCEPT !.outerFailed = p.outerFailed + 1, !.failed = 0]
         ELSE [p EXCEPT !.at = "returned"]
    [] p.call = "cmc quote by slug" -> [p EXCEPT !.call = "cmc html", !.failed = 0]
    [] p.call = "cmc html" -> [p EXCEPT !.at = "returned"]
    [] p.call = "cmc quote by id" -> [p EXCEPT !.at = "returned"]

\* One attempt of the current request fails.
AttemptFails ==
  /\ pc = "retry"
  /\ probe.at = "calling"
  /\ LET p == Attempted(probe)
     IN  probe' = IF p.failed < RetriesAround(p.call, p.retries)
                  THEN [p EXCEPT !.failed = p.failed + 1]
                  ELSE GivenUp(p)
  /\ UNCHANGED <<pipeRest, dex, gecko, cmc>>

\* One attempt of the current request is answered; priced: the answer holds
\* a price (for the HTML page: an id). fetchCmcPriceBySlug returns the price
\* of the quote by slug or goes on to the page, and from a page with an id to
\* the quote by id; every other call returns.
AttemptAnswers ==
  /\ pc = "retry"
  /\ probe.at = "calling"
  /\ \E priced \in BOOLEAN :
       LET p == Attempted(probe)
       IN  probe' = IF p.call = "cmc quote by slug" /\ ~priced
                    THEN [p EXCEPT !.call = "cmc html", !.failed = 0]
                    ELSE IF p.call = "cmc html" /\ priced
                    THEN [p EXCEPT !.call = "cmc quote by id", !.failed = 0]
                    ELSE [p EXCEPT !.at = "returned"]
  /\ UNCHANGED <<pipeRest, dex, gecko, cmc>>

NextRetry ==
  \/ AttemptFails
  \/ AttemptAnswers

SpecRetry == InitRetry /\ [][NextRetry]_vars

\* C31: with retries = r, no upstream request of an adapter call is attempted
\* more than r + 1 times, the single lookups of the Dexscreener fallback and
\* the CMC slug lookups included.
C31_RetryBound ==
  \A call \in NetworkCalls : probe.attempts[call] <= probe.retries + 1


\* The /prices handlers that have answered 200.
PricesAnswered ==
  {h \in Handlers : probe.reqs[h].req.path = "/prices" /\ probe.reqs[h].pc = "responded"
                    /\ probe.reqs[h].status = "200"}

\* The handler has run afresh exactly when refresh=1 was asked, or the cache
\* is not configured, or it read no cached result; it has stored exactly
\* when it has run and the cache is configured; else it answers what it read.
FreshExactlyWhen(hd) ==
  /\ hd.ran <=> (hd.req.force \/ ~cacheEnabled \/ hd.cached = <<>>)
  /\ hd.stored <=> (hd.ran /\ cacheEnabled)
  /\ ~hd.ran => hd.prices = hd.cached

Refused ==
  {h \in Handlers : probe.reqs[h].pc # "none" /\ probe.reqs[h].req.path = "/run"
                    /\ probe.runToken /\ ~probe.reqs[h].req.tokenOk}

\* C40: when RUN_TOKEN is configured, a request to /run whose token differs
\* is answered 401 and is over, in blocking and in async mode alike: it has
\* queued no run, called neither fetchAllPrices nor storeResults, and holds
\* no prices.
C40_RunAuthorization ==
  \A h \in Refused :
    /\ probe.reqs[h].status = "401"
    /\ probe.reqs[h].pc = "responded"
    /\ ~probe.reqs[h].ran
    /\ ~probe.reqs[h].stored
    /\ probe.reqs[h].prices = <<>>

\* An async request and a blocking one have both been refused, and the store
\* is empty.
C40_Witness ==
  /\ pc = "server"
  /\ probe.runToken
  /\ \E h \in Refused : probe.reqs[h].req.async
  /\ \E h \in Refused : ~probe.reqs[h].req.async
  /\ cache = EmptyMap


CachedForToken(t) ==
  { Undefined,
    toPriceResult(t.chain, t.contract_address, Num(5), "coingecko", 0),
    toPriceResult(t.chain, t.contract_address, Null, NullSource, 0) }

\* What a provider answers for the key of t: the price, or null; failed: its
\* call fails altogether.
ProviderAnswers(pool) == [failed : {FALSE}, price : pool] \cup {[failed |-> TRUE, price |-> Null]}

\* The single lookup behind .catch(() => null).
SingleAnswer(a) == IF a.failed THEN Null ELSE a.price

\* The batch call behind .catch(() => ({})): the adapter's map holds the key
\* as the adapter writes it.
BatchAnswer(a, key) == IF a.failed \/ key = "" THEN EmptyMap ELSE [k \in {key} |-> a.price]

InitAgree ==
  /\ \E t \in SheetTokenRow :
       /\ tokens = <<t>>
       /\ \E cached \in CachedForToken(t), d \in ProviderAnswers(PricePool),
             g \in ProviderAnswers({Null, Num(0), Num(3)}), c \in ProviderAnswers(CmcPricePool) :
            probe = [fn |-> "agree", cached |-> cached, dexscreener |-> d, coingecko |-> g,
                     cmc |-> c, bulk |-> "called"]
  /\ cacheEnabled = TRUE
  /\ cache = EmptyMap
  /\ now = 1
  /\ run = 0
  /\ pc = "agree"
  /\ ci = 1
  /\ results = <<Undefined>>
  /\ needFetchIdx = <<>>
  /\ hits = {}
  /\ single = Undefined
  /\ addresses = <<>> /\ dexMap = EmptyMap
  /\ ids = <<>> /\ idxForId = <<>> /\ geckoMap = EmptyMap
  /\ slugs = <<>> /\ idxForSlug = <<>> /\ cmcMap = EmptyMap
  /\ caught = {}
  /\ dex = DexIdle /\ gecko = GeckoIdle /\ cmc = CmcIdle

\* fetchAllPrices([t]), lines 52-65: the cache pass.
BulkCachePass ==
  /\ pc = "agree"
  /\ probe.bulk = "called"
  /\ results' = <<alreadyNormalized(probe.cached, now)>>
  /\ needFetchIdx' = needFetchAfter(<<>>, probe.cached, 1)
  /\ hits' = IF Filled(probe.cached) THEN {1} ELSE {}
  /\ probe' = [probe EXCEPT !.bulk = IF Filled(probe.cached) THEN "returned" ELSE "providers"]
  /\ UNCHANGED <<tokens, cacheEnabled, cache, now, run, pc, ci, single,
                 addresses, dexMap, ids, idxForId, geckoMap, slugs, idxForSlug, cmcMap,
                 caught, dex, gecko, cmc>>

\* fetchAllPrices([t]), lines 85-166: the three provider passes and the
\* final fill, each batch call answering as the provider does for the key.
BulkProviders ==
  /\ pc = "agree"
  /\ probe.bulk = "providers"
  /\ LET t == tokens[1]
         dMap == BatchAnswer(probe.dexscreener, toLowerCase(Trim(t.contract_address)))
         res1 == applyMap(results, dMap, "dexscreener", now)
         gIdx == geckoIdx(res1)
         gMap == IF gIdx = <<>> THEN EmptyMap ELSE BatchAnswer(probe.coingecko, GeckoIdOf(t))
         res2 == applySlugMap(res1, gIdx, gMap, GeckoIdOf, "coingecko", now)
         cIdx == cmcIdx(res2)
         cMap == IF cIdx = <<>> THEN EmptyMap ELSE BatchAnswer(probe.cmc, CmcSlugOf(t))
         res3 == applySlugMap(res2, cIdx, cMap, CmcSlugOf, "cmc", now)
     IN  /\ dexMap' = dMap /\ geckoMap' = gMap /\ cmcMap' = cMap
         /\ idxForId' = gIdx /\ idxForSlug' = cIdx
         /\ results' = fillRemaining(res3, now)
  /\ probe' = [probe EXCEPT !.bulk = "returned"]
  /\ UNCHANGED <<tokens, cacheEnabled, cache, now, run, pc, ci, needFetchIdx, hits, single,
                 addresses, ids, slugs, caught, dex, gecko, cmc>>

\* fetchPriceForToken(t), lines 18-42.
SingleCall ==
  /\ pc = "agree"
  /\ single = Undefined
  /\ single' = fetchPriceForTokenOf(tokens[1], probe.cached, SingleAnswer(probe.dexscreener),
                                    SingleAnswer(probe.coingecko), SingleAnswer(probe.cmc), now)
  /\ UNCHANGED <<probe, tokens, cacheEnabled, cache, now, run, pc, ci, results, needFetchIdx, hits,
                 addresses, dexMap, ids, idxForId, geckoMap, slugs, idxForSlug, cmcMap,
                 caught, dex, gecko, cmc>>

NextAgree ==
  \/ BulkCachePass
  \/ BulkProviders
  \/ SingleCall

SpecAgree == InitAgree /\ [][NextAgree]_vars

\* C33: for any token, cache state and provider answers, the same for both
\* calls, fetchPriceForToken(t) and fetchAllPrices([t])[0] have the same
\* priceUsd and the same source.
C33_SingleAndBulkAgree ==
  (pc = "agree" /\ probe.bulk = "returned" /\ single # Undefined) =>
     /\ results[1].priceUsd = single.priceUsd
     /\ results[1].source = single.source

\* Both calls have returned for a token with both slugs whose Dexscreener
\* call fails and that CoinGecko and CMC both price: both answer the
\* CoinGecko price.
C33_Witness ==
  /\ pc = "agree" /\ probe.bulk = "returned" /\ single # Undefined
  /\ tokens[1].coingecko_id # NullStr /\ tokens[1].cmc_slug # NullStr
  /\ probe.coingecko.price = Num(3)
  /\ probe.dexscreener.failed
  /\ single.source = "coingecko"
  /\ results[1].source = "coingecko"
  /\ probe.cmc.price = Num(4)


\* What each strategy of the probed CMC lookup yields on its own: the quote
\* by slug; the quote by the id of the page, which needs the page and an id
\* in it; the __NEXT_DATA__ parse, which needs the page.
StrategyYields ==
  << IF probe.bySlug.ok THEN probe.bySlug.price ELSE Null,
     IF probe.html.ok /\ probe.html.hasId /\ probe.byId.ok THEN probe.byId.price ELSE Null,
     IF probe.html.ok THEN probe.html.next ELSE Null >>

\* C35: fetchCmcPriceBySlug returns the price of the first strategy, in the
\* order quote by slug, quote by id, __NEXT_DATA__ parse, that yields one - a
\* strategy that fails or yields no price being passed over - and unknown
\* only when none yields one.
C35_CmcStrategyOrder ==
  (probe.fn = "fetchCmcPriceBySlug" /\ probe.at = "returned") =>
     LET y == StrategyYields
     IN  probe.price = (IF NotNullish(y[1]) THEN y[1]
                        ELSE IF NotNullish(y[2]) THEN y[2]
                        ELSE y[3])


(***************************************************************************)
(* The pipeline under the assumption that every cache read and every       *)
(* upstream call eventually returns or fails: a step of a run that can be  *)
(* taken is eventually taken.                                              *)
(***************************************************************************)
\* The steps of a run of fetchAllPrices and of its adapters.
RunStep ==
  \/ CacheRead
  \/ AllFromCache
  \/ CallDexscreener
  \/ DexRequestFails
  \/ DexRequestAnswers
  \/ DexFallbackFails
  \/ DexFallbackAnswers
  \/ DexscreenerSettled
  \/ GeckoRequestFails
  \/ GeckoRequestAnswers
  \/ CoingeckoSettled
  \/ CmcGroupStarts
  \/ CmcLookupSettles
  \/ CmcGroupSettles
  \/ CmcSettled
  \/ Finalize

\* The token lists of the fair specification: every list of one row, and the
\* two-row lists whose rows share an address.
LiveTokenLists ==
  {toks \in TokenLists :
     \/ Len(toks) <= 1
     \/ Len(toks) = 2 /\ toks[1].contract_address = toks[2].contract_address /\ toks[1] # toks[2]}

InitLive == Init /\ tokens \in LiveTokenLists

SpecLive == InitLive /\ [][Next]_vars /\ WF_vars(RunStep)

\* C36: every run of fetchAllPrices that has started eventually returns its
\* result list, one result per token, whatever the providers answer and
\* however many of their calls fail.
C36_RunTerminates ==
  (pc = "cache") ~> (pc = "done" /\ Len(results) = N /\ \A i \in 1..N : Filled(results[i]))

\* A run has returned after the calls of all three adapters rejected or failed.
C36_Witness ==
  /\ pc = "done"
  /\ N >= 1
  /\ "dexscreener" \in caught
  /\ gecko.threw # {}
  /\ cmc.threw # {}


\* C37: the key under which storeResults writes the result of a token is the
\* key under which fetchAllPrices reads the cache for that token, whatever
\* the letter case of the token's address; a result found in the cache by a
\* run is one that was produced for the same token.
C37_CacheKeyRoundTrip ==
  /\ \A i \in 1..Len(results) :
       Filled(results[i]) =>
         cacheKey(results[i].chain, results[i].address)
           = cacheKey(tokens[i].chain, tokens[i].contract_address)
  /\ \A i \in hits :
       /\ results[i].chain = tokens[i].chain
       /\ results[i].address \in {"0xaa", "0xbb"}
       /\ results[i].address = "0xaa" <=> tokens[i].contract_address \in {"0xAA", "0xaa"}

\* The second run found in the cache the price that the first run stored for
\* a token whose address is written in upper case.
C37_Witness ==
  /\ run = 2
  /\ \E i \in hits :
       /\ tokens[i].contract_address = "0xAA"
       /\ results[i].address = "0xaa"
       /\ results[i].priceUsd # Null


\* Two pending tokens of one run whose addresses are equal up to letter case
\* and whose chains differ.
SameAddressOtherChain(i, j) ==
  /\ i \in Range(needFetchIdx)
  /\ j \in Range(needFetchIdx)
  /\ toLowerCase(tokens[i].contract_address) = toLowerCase(tokens[j].contract_address)
  /\ tokens[i].chain # tokens[j].chain

\* C38: after the Dexscreener pass, two cache-miss tokens whose addresses are
\* equal up to letter case and whose chains differ are either both filled,
\* with the same price and the source dexscreener, or both still pending.
C38_DexscreenerByAddressAlone ==
  pc = "gecko" =>
    \A i, j \in 1..N :
      SameAddressOtherChain(i, j) =>
        \/ /\ Filled(results[i]) /\ Filled(results[j])
           /\ results[i].priceUsd = results[j].priceUsd
           /\ results[i].source = "dexscreener"
           /\ results[j].source = "dexscreener"
        \/ ~Filled(results[i]) /\ ~Filled(results[j])

\* The Dexscreener pass filled an eth token and a bsc token of one address,
\* written in different letter case, with one price.
C38_Witness ==
  /\ pc = "gecko"
  /\ \E i, j \in 1..N :
       /\ SameAddressOtherChain(i, j)
       /\ tokens[i].contract_address # tokens[j].contract_address
       /\ Filled(results[i]) /\ Filled(results[j])
       /\ results[i].chain = "eth" /\ results[j].chain = "bsc"


\* The key of the cache entry of token i.
TokenKey(i) == cacheKey(tokens[i].chain, tokens[i].contract_address)

\* C39: when the store answers every SET, storeResults writes the result of
\* every token of the run, those of unknown price included; a token found in
\* the cache by a run is never made pending, is passed to no provider, and
\* its result is the stored one, whether its price is known or unknown.
C39_UnknownCachedLikeKnown ==
  /\ (pc = "done" /\ cacheEnabled) =>
       \E e \in StoreEffects(results) :
         /\ ~e.raised
         /\ \A i \in 1..N :
              /\ TokenKey(i) \in e.written
              /\ \E j \in 1..N : TokenKey(j) = TokenKey(i)
                                  /\ e.cache[TokenKey(i)] = jsonRoundTrip(results[j])
  /\ pc \notin {"idle", "rejected"} =>
       \A i \in hits :
         /\ i \notin Range(needFetchIdx) \cup Range(idxForId) \cup Range(idxForSlug)
         /\ results[i] = cache[TokenKey(i)]

\* The second run returned, from the cache alone, the unknown price that the
\* first run stored.
C39_Witness ==
  /\ run = 2
  /\ pc = "done"
  /\ needFetchIdx = <<>>
  /\ \E i \in hits : results[i].priceUsd = Null /\ results[i].source = NullSource

=============================================================================
